---- MODULE Spec2Model ----
(***************************************************************************)
(* Portfolio valuation engine of the investment dashboard:                 *)
(*   utils/market_data.py  get_usd_ars_rate, detect_currency,              *)
(*                         convert_to_usd, get_current_price               *)
(*                         calculate_rsi, calculate_macd, calculate_sma,   *)
(*                         calculate_bollinger_bands,                      *)
(*                         get_technical_indicators                        *)
(*                         interpret_rsi, interpret_macd, interpret_sma,   *)
(*                         interpret_bollinger                             *)
(*   utils/database.py     calculate_portfolio_metrics                     *)
(*   utils/auth.py         login_user, register_user, logout_user          *)
(*   pages/dashboard.py    show, convert_metrics_to_ars                    *)
(*   pages/analysis.py     show, show_indicators_summary                   *)
(*   the application script  main, show_auth_page, show_app                *)
(*                                                                         *)
(* Python floats are modelled as exact rationals <<n, d>> in lowest terms  *)
(* with d > 0.  A division by zero, which Python raises as                 *)
(* ZeroDivisionError, yields the value Raised (<<0, 0>>) and every         *)
(* operation on Raised yields Raised, so a raise inside a function is      *)
(* visible in its result.  Tickers are sequences of characters, so that    *)
(* upper() and endswith() are computed, not assumed.                       *)
(***************************************************************************)
EXTENDS Integers, Sequences, FiniteSets, TLC

VARIABLES
    positions,       \* the positions list handed to calculate_portfolio_metrics
    current_prices,  \* the quote map {ticker: price_info} handed to it
    usd_ars,         \* what get_usd_ars_rate() returns at this moment
    metrics,         \* the last two calls of calculate_portfolio_metrics, latest first
    det_ticker,      \* argument of detect_currency
    det_result,      \* its return value
    conv_price,      \* arguments of convert_to_usd
    conv_currency,
    conv_result,     \* its return value, with the rate it read
    q_ticker,        \* argument of get_current_price
    q_close,         \* the last Close of the history it downloads
    quote,           \* its return value
    data,            \* the Close column of the history handed to an indicator function
    ind,             \* what the indicator function returned
    reading,         \* the arguments of an interpret_ function
    verdict,         \* its return value
    summary,         \* what show_indicators_summary did with the indicators
    session_state,   \* st.session_state: the keys it holds and their values
    accounts,        \* the users of the Supabase project: email -> password
    rendered         \* what the last script run left on the screen

quoteVars == <<q_ticker, q_close, quote>>

seriesVars == <<data, ind>>

interpretVars == <<reading, verdict>>

sessionVars == <<session_state, accounts, rendered>>

uiVars == <<interpretVars, summary, sessionVars>>

vars == <<positions, current_prices, usd_ars, metrics,
          det_ticker, det_result, conv_price, conv_currency, conv_result,
          q_ticker, q_close, quote, data, ind,
          reading, verdict, summary, session_state, accounts, rendered>>

-----------------------------------------------------------------------------
(* Bounds of the model *)

MaxPositions == 2
MaxTickerLen == 4
MaxAmount == 12
MaxMacdBars == 2
MaxPatternLen == 2
Slack == 1
MaxBandWidth == 10

-----------------------------------------------------------------------------
(* Float arithmetic as exact rationals *)

Abs(n) == IF n < 0 THEN -n ELSE n

RECURSIVE GCD(_, _)
GCD(a, b) == IF b = 0 THEN a ELSE GCD(b, a % b)

Raised == <<0, 0>>

IsRaised(x) == x[2] = 0

Norm(n, d) ==
    IF d = 0 THEN Raised
    ELSE LET g == GCD(Abs(n), Abs(d))
             s == IF d < 0 THEN -1 ELSE 1
         IN  <<(s * n) \div g, (s * d) \div g>>

Num(k) == <<k, 1>>

Zero == Num(0)

Hundred == Num(100)

\* Sums are taken over the least common denominator and products are reduced
\* crosswise first, which keeps the intermediate integers small.
RAdd(x, y) ==
    IF IsRaised(x) \/ IsRaised(y) THEN Raised
    ELSE LET g == GCD(x[2], y[2])
         IN  Norm(x[1] * (y[2] \div g) + y[1] * (x[2] \div g), (x[2] \div g) * y[2])

RNeg(x) == IF IsRaised(x) THEN Raised ELSE <<-x[1], x[2]>>

RSub(x, y) == RAdd(x, RNeg(y))

RMul(x, y) ==
    IF IsRaised(x) \/ IsRaised(y) THEN Raised
    ELSE IF x[1] = 0 \/ y[1] = 0 THEN <<0, 1>>
    ELSE LET g == GCD(Abs(x[1]), y[2])
             h == GCD(Abs(y[1]), x[2])
         IN  Norm((x[1] \div g) * (y[1] \div h), (x[2] \div h) * (y[2] \div g))

\* x / y: Python raises ZeroDivisionError when y is 0
RDiv(x, y) ==
    IF IsRaised(x) \/ IsRaised(y) \/ y[1] = 0 THEN Raised
    ELSE RMul(x, IF y[1] < 0 THEN <<-y[2], -y[1]>> ELSE <<y[2], y[1]>>)

RPos(x) == ~IsRaised(x) /\ x[1] > 0

\* x <= y
RLe(x, y) == x[1] * y[2] <= y[1] * x[2]

RAbs(x) == <<Abs(x[1]), x[2]>>

\* round(x, 2): to the nearest hundredth, ties to the even hundredth
Round2(x) ==
    IF IsRaised(x) THEN Raised
    ELSE LET n == x[1] * 100
             d == x[2]
             q == n \div d
             twice == 2 * (n - q * d)
             r == IF twice < d THEN q
                  ELSE IF twice > d THEN q + 1
                  ELSE IF q % 2 = 0 THEN q ELSE q + 1
         IN  Norm(r, 100)

-----------------------------------------------------------------------------
(* Strings as sequences of characters *)

UpperChar(c) ==
    CASE c = "a" -> "A"
      [] c = "b" -> "B"
      [] c = "m" -> "M"
      [] c = "s" -> "S"
      [] c = "x" -> "X"
      [] c = "y" -> "Y"
      [] c = "p" -> "P"
      [] c = "f" -> "F"
      [] c = "d" -> "D"
      [] OTHER   -> c

\* upper() left out: the suffixes are compared case-sensitively
UpperLeftOut(s) == s

\* str.upper()
Upper(s) == [i \in 1..Len(s) |-> UpperChar(s[i])]

\* str.endswith(suffix)
EndsWith(s, suffix) ==
    /\ Len(s) >= Len(suffix)
    /\ SubSeq(s, Len(s) - Len(suffix) + 1, Len(s)) = suffix

-----------------------------------------------------------------------------
(* utils/market_data.py *)

FallbackRate == 1000

BrlDivisor == 5

MxnDivisor == 17

\* The values get_usd_ars_rate can return: the rounded close of USDARS=X, or
\* the fallback when the lookup fails or is empty.
Rates == {Num(FallbackRate), Num(500)}

detect_currency(ticker) ==
    LET ticker_upper == Upper(ticker)
    IN  IF EndsWith(ticker_upper, <<".", "B", "A">>) THEN "ARS"
        ELSE IF EndsWith(ticker_upper, <<".", "S", "A">>) THEN "BRL"
        ELSE IF EndsWith(ticker_upper, <<".", "M", "X">>) THEN "MXN"
        ELSE "USD"

\* The ARS branch multiplies by the rate instead of dividing
ConvertMultiplies(price, currency, rate) ==
    IF currency = "USD" THEN price
    ELSE IF currency = "ARS" THEN RMul(price, rate)
    ELSE IF currency = "BRL" THEN RDiv(price, Num(BrlDivisor))
    ELSE IF currency = "MXN" THEN RDiv(price, Num(MxnDivisor))
    ELSE price

\* rate is the value get_usd_ars_rate() returns when convert_to_usd calls it
convert_to_usd(price, currency, rate) ==
    IF currency = "USD" THEN price
    ELSE IF currency = "ARS" THEN RDiv(price, rate)
    ELSE IF currency = "BRL" THEN RDiv(price, Num(BrlDivisor))
    ELSE IF currency = "MXN" THEN RDiv(price, Num(MxnDivisor))
    ELSE price

\* The quote built from a non-empty price history whose last close is `close`
get_current_price(ticker, close, rate) ==
    LET price == Round2(close)
        currency == detect_currency(ticker)
        price_usd == convert_to_usd(price, currency, rate)
    IN  [price |-> price, currency |-> currency,
         price_usd |-> Round2(price_usd), ticker |-> ticker]

-----------------------------------------------------------------------------
(* utils/market_data.py: technical indicators over the Close column          *)
(*                                                                           *)
(* A pandas Series is a sequence of floats.  pandas arithmetic never raises: *)
(* a missing value is NaN, x / 0 is inf for x > 0 and 0 / 0 is NaN.  NaN is  *)
(* <<0, 0>>, inf is <<1, 0>> and -inf is <<-1, 0>>.                          *)

RsiPeriod == 14
MacdFast == 12
MacdSlow == 26
MacdSignal == 9
SmaShort == 50
SmaLong == 200
BollingerPeriod == 20
BollingerStdDev == 2

NaN == <<0, 0>>

PosInf == <<1, 0>>

NegInf == <<-1, 0>>

IsNaN(x) == x = NaN

IsFinite(x) == x[2] # 0

NpNeg(x) == <<-x[1], x[2]>>

NpAdd(x, y) ==
    IF IsNaN(x) \/ IsNaN(y) THEN NaN
    ELSE IF IsFinite(x) /\ IsFinite(y) THEN RAdd(x, y)
    ELSE IF IsFinite(x) THEN y
    ELSE IF IsFinite(y) THEN x
    ELSE IF x = y THEN x ELSE NaN

NpSub(x, y) == NpAdd(x, NpNeg(y))

NpSign(x) == IF x[1] > 0 THEN 1 ELSE IF x[1] < 0 THEN -1 ELSE 0

\* x / y of two floats; the zero of a rolling mean of non-negative values is +0
NpDiv(x, y) ==
    IF IsNaN(x) \/ IsNaN(y) THEN NaN
    ELSE IF IsFinite(x) /\ IsFinite(y) THEN
        IF y[1] # 0 THEN RDiv(x, y)
        ELSE IF x[1] = 0 THEN NaN
        ELSE <<NpSign(x), 0>>
    ELSE IF IsFinite(x) THEN Zero
    ELSE IF IsFinite(y) THEN <<NpSign(x) * (IF y[1] < 0 THEN -1 ELSE 1), 0>>
    ELSE NaN

\* x > y and x < y; a comparison with NaN is False
NpGt(x, y) == ~IsNaN(x) /\ ~IsNaN(y) /\ x[1] * y[2] > y[1] * x[2]

NpLt(x, y) == NpGt(y, x)

\* A Series holds its values: the function is evaluated once, bar by bar
Series(f) == SubSeq(f, 1, Len(f))

\* Series.diff()
Diff(s) == Series([i \in 1..Len(s) |-> IF i = 1 THEN NaN ELSE NpSub(s[i], s[i - 1])])

RECURSIVE SumBetween(_, _, _)
SumBetween(s, lo, hi) ==
    IF lo > hi THEN Zero
    ELSE IF lo = hi THEN s[lo]
    ELSE LET mid == (lo + hi) \div 2
         IN  NpAdd(SumBetween(s, lo, mid), SumBetween(s, mid + 1, hi))

SeqSum(s) == SumBetween(s, 1, Len(s))

\* The values the window ending at bar i holds
Window(s, i, window) == [j \in 1..window |-> s[i - window + j]]

\* Series.rolling(window).mean(): min_periods is the window, so a bar has a
\* value when the window lies in the series and holds no NaN
RollingMean(s, window) ==
    Series([i \in 1..Len(s) |->
        IF i < window THEN NaN
        ELSE LET w == Window(s, i, window)
             IN  IF \E j \in 1..window : IsNaN(w[j]) THEN NaN
                 ELSE NpDiv(SeqSum(w), Num(window))])

\* delta.where(delta > 0, 0)
Gains(delta) == Series([i \in 1..Len(delta) |-> IF NpGt(delta[i], Zero) THEN delta[i] ELSE Zero])

LossesNotNegated(delta) ==
    Series([i \in 1..Len(delta) |-> IF NpLt(delta[i], Zero) THEN delta[i] ELSE Zero])

\* -delta.where(delta < 0, 0)
Losses(delta) ==
    Series([i \in 1..Len(delta) |-> NpNeg(IF NpLt(delta[i], Zero) THEN delta[i] ELSE Zero)])

calculate_rsi(close, period) ==
    LET delta == Diff(close)
        gain == RollingMean(Gains(delta), period)
        loss == RollingMean(Losses(delta), period)
        rs == [i \in 1..Len(close) |-> NpDiv(gain[i], loss[i])]
    IN  [i \in 1..Len(close) |->
            NpSub(Hundred, NpDiv(Hundred, NpAdd(Num(1), rs[i])))]

\* alpha of ewm(span=span): 2 / (span + 1)
Alpha(span) == Norm(2, span + 1)

\* ewm(span, adjust=True).mean(): the weighted mean of all bars so far
RECURSIVE EwmAdjusted(_, _)
EwmAdjusted(s, span) ==
    IF Len(s) <= 1 THEN s
    ELSE LET n == Len(s)
             prev == EwmAdjusted(SubSeq(s, 1, n - 1), span)
             keep == RSub(Num(1), Alpha(span))
         IN  Append(prev, RDiv(RAdd(s[n], RMul(keep, s[n - 1])), RAdd(Num(1), keep)))

\* Series.ewm(span=span, adjust=False).mean(): the first value is the first
\* bar, every later one is alpha * x[t] + (1 - alpha) * y[t-1]
RECURSIVE Ewm(_, _)
Ewm(s, span) ==
    IF Len(s) <= 1 THEN s
    ELSE LET n == Len(s)
             prev == Ewm(SubSeq(s, 1, n - 1), span)
         IN  Append(prev, NpAdd(RMul(Alpha(span), s[n]),
                                RMul(RSub(Num(1), Alpha(span)), prev[n - 1])))

\* The slow average minus the fast one
MacdSlowMinusFast(close, fast, slow, signal) ==
    LET exp1 == Ewm(close, fast)
        exp2 == Ewm(close, slow)
        macd == [i \in 1..Len(close) |-> NpSub(exp2[i], exp1[i])]
        signal_line == Ewm(macd, signal)
        histogram == [i \in 1..Len(close) |-> NpSub(macd[i], signal_line[i])]
    IN  [macd |-> macd, signal |-> signal_line, histogram |-> histogram]

calculate_macd(close, fast, slow, signal) ==
    LET exp1 == Ewm(close, fast)
        exp2 == Ewm(close, slow)
        macd == [i \in 1..Len(close) |-> NpSub(exp1[i], exp2[i])]
        signal_line == Ewm(macd, signal)
        histogram == [i \in 1..Len(close) |-> NpSub(macd[i], signal_line[i])]
    IN  [macd |-> macd, signal |-> signal_line, histogram |-> histogram]

\* rolling(window=period, min_periods=1).mean(): a bar before the window is
\* full has the mean of the bars so far
SmaOfPartialWindows(close, period) ==
    Series([i \in 1..Len(close) |->
        IF i < period THEN NpDiv(SeqSum(Window(close, i, i)), Num(i))
        ELSE NpDiv(SeqSum(Window(close, i, period)), Num(period))])

calculate_sma(close, period) == RollingMean(close, period)

\* A standard deviation is the square root of a rational, so a band is a
\* number rat + coef * sqrt(rad), kept in that form: rad >= 0, and coef and
\* rad are 0 when the root vanishes.  A NaN band has rat = NaN.
SurdOf(r) == [rat |-> r, coef |-> Zero, rad |-> Zero]

SurdNaN == SurdOf(NaN)

IsNaNSurd(x) == IsNaN(x.rat)

Surd(rat, coef, rad) ==
    IF IsNaN(rat) \/ IsNaN(coef) \/ IsNaN(rad) THEN SurdNaN
    ELSE IF coef = Zero \/ rad = Zero THEN SurdOf(rat)
    ELSE [rat |-> rat, coef |-> coef, rad |-> rad]

Sqrt(v) == Surd(Zero, Num(1), v)

\* x * k for a number k
SurdTimes(x, k) == Surd(RMul(x.rat, k), RMul(x.coef, k), x.rad)

\* r + x and r - x for a float r
SurdPlus(r, x) ==
    IF IsNaN(r) \/ IsNaNSurd(x) THEN SurdNaN ELSE Surd(RAdd(r, x.rat), x.coef, x.rad)

SurdMinus(r, x) ==
    IF IsNaN(r) \/ IsNaNSurd(x) THEN SurdNaN
    ELSE Surd(RSub(r, x.rat), RNeg(x.coef), x.rad)

\* The sum of the squared distances of the values from m
RECURSIVE SquaresAbout(_, _)
SquaresAbout(s, m) ==
    IF s = <<>> THEN Zero
    ELSE RAdd(RMul(RSub(s[1], m), RSub(s[1], m)), SquaresAbout(Tail(s), m))

\* The variance of the window ending at bar i, over `ddof` fewer than its size
WindowVar(s, i, window, ddof) ==
    IF i < window THEN NaN
    ELSE LET w == Window(s, i, window)
         IN  IF \E j \in 1..window : IsNaN(w[j]) THEN NaN
             ELSE RDiv(SquaresAbout(w, RDiv(SeqSum(w), Num(window))), Num(window - ddof))

\* rolling(window).std(ddof=0): the population standard deviation
RollingStdOfPopulation(s, window) ==
    Series([i \in 1..Len(s) |-> Sqrt(WindowVar(s, i, window, 0))])

\* Series.rolling(window).std(): ddof is 1, the sample standard deviation
RollingStd(s, window) ==
    Series([i \in 1..Len(s) |-> Sqrt(WindowVar(s, i, window, 1))])

calculate_bollinger_bands(close, period, std_dev) ==
    LET middle_band == RollingMean(close, period)
        std == RollingStd(close, period)
        upper_band == [i \in 1..Len(close) |->
                          SurdPlus(middle_band[i], SurdTimes(std[i], Num(std_dev)))]
        lower_band == [i \in 1..Len(close) |->
                          SurdMinus(middle_band[i], SurdTimes(std[i], Num(std_dev)))]
    IN  [upper |-> upper_band, middle |-> middle_band, lower |-> lower_band]

None == [none |-> TRUE]

\* The largest integer whose square is at most n, found by bisection
RECURSIVE ISqrtBetween(_, _, _)
ISqrtBetween(n, lo, hi) ==
    IF lo = hi THEN lo
    ELSE LET mid == (lo + hi + 1) \div 2
         IN  IF mid * mid <= n THEN ISqrtBetween(n, mid, hi)
             ELSE ISqrtBetween(n, lo, mid - 1)

ISqrt(n) == ISqrtBetween(n, 0, IF n < 46340 THEN n ELSE 46340)

\* The square root of a rational when it is rational, NaN when it is not
RationalRoot(v) ==
    LET a == ISqrt(v[1])
        b == ISqrt(v[2])
    IN  IF a * a = v[1] /\ b * b = v[2] THEN <<a, b>> ELSE NaN

RFloor(x) == x[1] \div x[2]

\* round(x, 2) of a band value rat + coef * sqrt(rad).  With an irrational
\* root there is no tie: the hundredths are floor(100 * x + 1/2), found from
\* the integer part r of the root of W = (100 * coef)^2 * rad.
Round2Surd(x) ==
    LET root == RationalRoot(x.rad)
    IN  IF x.coef = Zero THEN Round2(x.rat)
        ELSE IF ~IsNaN(root) THEN Round2(RAdd(x.rat, RMul(x.coef, root)))
        ELSE LET B == RAdd(RMul(x.rat, Hundred), Norm(1, 2))
                 c == RMul(x.coef, Hundred)
                 W == RMul(RMul(c, c), x.rad)
                 r == ISqrt(RFloor(W))
             IN  IF c[1] > 0
                 THEN LET n0 == RFloor(RAdd(B, Num(r)))
                          t == RSub(Num(n0 + 1), B)
                      IN  Norm(IF RLe(RMul(t, t), W) THEN n0 + 1 ELSE n0, 100)
                 ELSE LET n1 == RFloor(RSub(B, Num(r)))
                          u == RSub(B, Num(n1))
                      IN  Norm(IF RLe(W, RMul(u, u)) THEN n1 ELSE n1 - 1, 100)

\* series.iloc[-1]
Last(series) == series[Len(series)]

ReportedNaNAsZero(x) == IF IsNaN(x) THEN Zero ELSE Round2(x)

\* round(x, 2) if not pd.isna(x) else None
Reported(x) == IF IsNaN(x) THEN None ELSE Round2(x)

ReportedBand(x) == IF IsNaNSurd(x) THEN None ELSE Round2Surd(x)

\* The dictionary built from a downloaded history that has bars
IndicatorSet(hist) ==
    LET rsi == calculate_rsi(hist, RsiPeriod)
        m == calculate_macd(hist, MacdFast, MacdSlow, MacdSignal)
        sma_50 == calculate_sma(hist, SmaShort)
        sma_200 == calculate_sma(hist, SmaLong)
        bb == calculate_bollinger_bands(hist, BollingerPeriod, BollingerStdDev)
    IN  [data |-> hist,
         current_price |-> Round2(Last(hist)),
         rsi |-> Reported(Last(rsi)),
         macd |-> [macd |-> Reported(Last(m.macd)),
                   signal |-> Reported(Last(m.signal)),
                   histogram |-> Reported(Last(m.histogram)),
                   series |-> m],
         sma_50 |-> Reported(Last(sma_50)),
         sma_200 |-> Reported(Last(sma_200)),
         bollinger_bands |-> [upper |-> ReportedBand(Last(bb.upper)),
                              middle |-> Reported(Last(bb.middle)),
                              lower |-> ReportedBand(Last(bb.lower)),
                              series |-> bb],
         series |-> [rsi |-> rsi, sma_50 |-> sma_50, sma_200 |-> sma_200]]

\* A variant that also answers "no data" while the longest window is not full
NoDataOnShortHistory(hist) ==
    IF Len(hist) < SmaLong THEN None ELSE IndicatorSet(hist)

\* if data.empty: return None; no pandas operation of the body raises, so
\* the except branch is taken by no history
get_technical_indicators(hist) ==
    IF hist = <<>> THEN None ELSE IndicatorSet(hist)

-----------------------------------------------------------------------------
(* utils/market_data.py: the interpreters of the latest indicator values *)

RsiOverbought == 70
RsiOversold == 30

\* An exception that leaves the function
Raises(exception) == [raised |-> exception]

\* The dictionary an interpreter returns
Reading(signal, description) == [signal |-> signal, description |-> description]

InsufficientData == Reading("neutral", "Datos insuficientes")

\* x > y of two floats
RGt(x, y) == ~RLe(x, y)

\* A variant with strict thresholds: 70 and 30 themselves read neutral
RsiStrictThresholds(rsi) ==
    IF rsi = None THEN InsufficientData
    ELSE IF RGt(rsi, Num(RsiOverbought))
    THEN Reading("sobrecompra", "Posible sobrecompra, considerar venta")
    ELSE IF RGt(Num(RsiOversold), rsi)
    THEN Reading("sobreventa", "Posible sobreventa, considerar compra")
    ELSE Reading("neutral", "En rango neutral")

\* A variant that reads a missing RSI like one within the neutral range
RsiNoneAsNeutralRange(rsi) ==
    IF rsi = None THEN Reading("neutral", "En rango neutral")
    ELSE IF RLe(Num(RsiOverbought), rsi)
    THEN Reading("sobrecompra", "Posible sobrecompra, considerar venta")
    ELSE IF RLe(rsi, Num(RsiOversold))
    THEN Reading("sobreventa", "Posible sobreventa, considerar compra")
    ELSE Reading("neutral", "En rango neutral")

interpret_rsi(rsi) ==
    IF rsi = None THEN InsufficientData
    ELSE IF RLe(Num(RsiOverbought), rsi)
    THEN Reading("sobrecompra", "Posible sobrecompra, considerar venta")
    ELSE IF RLe(rsi, Num(RsiOversold))
    THEN Reading("sobreventa", "Posible sobreventa, considerar compra")
    ELSE Reading("neutral", "En rango neutral")

\* A variant where equal lines read alcista
MacdTieAsBullish(macd, signal) ==
    IF macd = None \/ signal = None THEN InsufficientData
    ELSE IF RLe(signal, macd) THEN Reading("alcista", "Tendencia alcista")
    ELSE Reading("bajista", "Tendencia bajista")

interpret_macd(macd, signal) ==
    IF macd = None \/ signal = None THEN InsufficientData
    ELSE IF RGt(macd, signal) THEN Reading("alcista", "Tendencia alcista")
    ELSE Reading("bajista", "Tendencia bajista")

\* A variant that tests the price before the cross of the averages
SmaPriceBeforeCross(current_price, sma_50, sma_200) ==
    IF sma_50 = None \/ sma_200 = None THEN InsufficientData
    ELSE IF RGt(current_price, sma_50)
    THEN Reading("alcista", "Por encima de SMA 50")
    ELSE IF RGt(sma_50, sma_200) /\ RGt(current_price, sma_50)
    THEN Reading("muy_alcista", "Golden Cross - Fuerte tendencia alcista")
    ELSE IF RGt(sma_200, sma_50) /\ RGt(sma_50, current_price)
    THEN Reading("muy_bajista", "Death Cross - Fuerte tendencia bajista")
    ELSE Reading("bajista", "Por debajo de SMA 50")

interpret_sma(current_price, sma_50, sma_200) ==
    IF sma_50 = None \/ sma_200 = None THEN InsufficientData
    ELSE IF RGt(sma_50, sma_200) /\ RGt(current_price, sma_50)
    THEN Reading("muy_alcista", "Golden Cross - Fuerte tendencia alcista")
    ELSE IF RGt(sma_200, sma_50) /\ RGt(sma_50, current_price)
    THEN Reading("muy_bajista", "Death Cross - Fuerte tendencia bajista")
    ELSE IF RGt(current_price, sma_50)
    THEN Reading("alcista", "Por encima de SMA 50")
    ELSE Reading("bajista", "Por debajo de SMA 50")

\* What a position within the bands reads as
BollingerReading(position) ==
    IF RLe(Norm(9, 10), position)
    THEN Reading("sobrecompra", "Cerca de banda superior - Posible sobrecompra")
    ELSE IF RLe(position, Norm(1, 10))
    THEN Reading("sobreventa", "Cerca de banda inferior - Posible sobreventa")
    ELSE IF RGt(position, Norm(1, 2))
    THEN Reading("alcista", "Por encima de la media")
    ELSE Reading("bajista", "Por debajo de la media")

\* A variant that divides by the band range without testing it
BollingerUnguarded(current_price, upper, middle, lower) ==
    IF upper = None \/ middle = None \/ lower = None THEN InsufficientData
    ELSE LET position == RDiv(RSub(current_price, lower), RSub(upper, lower))
         IN  IF IsRaised(position) THEN Raises("ZeroDivisionError")
             ELSE BollingerReading(position)

\* A variant that measures the position from the upper band
BollingerFromUpperBand(current_price, upper, middle, lower) ==
    IF upper = None \/ middle = None \/ lower = None THEN InsufficientData
    ELSE LET band_range == RSub(upper, lower)
             position == IF RPos(band_range)
                         THEN RDiv(RSub(upper, current_price), band_range)
                         ELSE Norm(1, 2)
         IN  BollingerReading(position)

interpret_bollinger(current_price, upper, middle, lower) ==
    IF upper = None \/ middle = None \/ lower = None THEN InsufficientData
    ELSE LET band_range == RSub(upper, lower)
             position == IF RPos(band_range)
                         THEN RDiv(RSub(current_price, lower), band_range)
                         ELSE Norm(1, 2)
         IN  BollingerReading(position)

-----------------------------------------------------------------------------
(* pages/analysis.py: the summary cards of the technical analysis page *)

\* f"{x:.1f}": the nearest tenth, ties to the even tenth
Format1(x) ==
    LET n == x[1] * 10
        d == x[2]
        q == n \div d
        twice == 2 * (n - q * d)
        r == IF twice < d THEN q
             ELSE IF twice > d THEN q + 1
             ELSE IF q % 2 = 0 THEN q ELSE q + 1
    IN  Norm(r, 10)

\* f"{x:.2f}"
Format2(x) == Round2(x)

Card(label, value, note) == [label |-> label, value |-> value, note |-> note]

\* "▲" if indicators['current_price'] > sma else "▼"
Trend(current_price, sma) == IF RGt(current_price, sma) THEN "up" ELSE "down"

\* A card is written when its st.markdown call is reached; formatting None
\* with .1f or .2f and comparing a float with None raise TypeError, which
\* nothing in the page catches
Rendered(cards) == [status |-> "rendered", cards |-> cards]

RaisedAfter(cards) ==
    [status |-> "raised", exception |-> "TypeError", cards |-> cards]

\* A variant that writes a card without a value for a None scalar
SummaryWithInsufficientData(indicators) ==
    LET rsi_interp == interpret_rsi(indicators.rsi)
        macd_interp == interpret_macd(indicators.macd.macd, indicators.macd.signal)
        price == indicators.current_price
        Value1(x) == IF x = None THEN InsufficientData.description ELSE Format1(x)
        Value2(x) == IF x = None THEN InsufficientData.description ELSE Format2(x)
        Note(x) == IF x = None THEN "" ELSE Trend(price, x)
    IN  Rendered(<<Card("Precio Actual", Format2(price), ""),
                   Card("RSI (14)", Value1(indicators.rsi), rsi_interp.signal),
                   Card("MACD", Value2(indicators.macd.macd), macd_interp.signal),
                   Card("SMA 50", Value2(indicators.sma_50), Note(indicators.sma_50)),
                   Card("SMA 200", Value2(indicators.sma_200), Note(indicators.sma_200))>>)

show_indicators_summary(indicators) ==
    LET rsi_interp == interpret_rsi(indicators.rsi)
        macd_interp == interpret_macd(indicators.macd.macd, indicators.macd.signal)
        price == indicators.current_price
        sma_50 == indicators.sma_50
        sma_200 == indicators.sma_200
        col1 == <<Card("Precio Actual", Format2(price), "")>>
    IN  IF indicators.rsi = None THEN RaisedAfter(col1)
        ELSE LET col2 == Append(col1, Card("RSI (14)", Format1(indicators.rsi),
                                           rsi_interp.signal))
             IN  IF indicators.macd.macd = None THEN RaisedAfter(col2)
        ELSE LET col3 == Append(col2, Card("MACD", Format2(indicators.macd.macd),
                                           macd_interp.signal))
             IN  IF sma_50 = None THEN RaisedAfter(col3)
        ELSE LET col4 == Append(col3, Card("SMA 50", Format2(sma_50),
                                           Trend(price, sma_50)))
             IN  IF sma_200 = None THEN RaisedAfter(col4)
        ELSE Rendered(Append(col4, Card("SMA 200", Format2(sma_200),
                                        Trend(price, sma_200))))

\* show(): the indicators of the selected ticker and period, an error
\* message when there are none, the summary otherwise
NoDataMessage ==
    [status |-> "error",
     message |-> "No se pudieron obtener los datos. Verifica que el ticker sea correcto."]

ShowSummary(indicators) ==
    IF indicators = None THEN NoDataMessage
    ELSE show_indicators_summary(indicators)

-----------------------------------------------------------------------------
(* utils/database.py: calculate_portfolio_metrics *)

\* current_prices.get(ticker)
Get(prices, ticker) == IF ticker \in DOMAIN prices THEN prices[ticker] ELSE None

\* lines 205-211: the quote's prices, or the purchase price when there is none
CurrentPrice(price_info, purchase_price) ==
    IF price_info # None THEN price_info.price ELSE purchase_price

\* The quote's price in its own currency is taken as its USD price
CurrentPriceNative(price_info, purchase_price_usd) ==
    IF price_info # None THEN price_info.price ELSE purchase_price_usd

\* A missing quote is valued at 0
CurrentPriceMissingIsZero(price_info, purchase_price_usd) ==
    IF price_info # None THEN price_info.price_usd ELSE Zero

CurrentPriceUsd(price_info, purchase_price_usd) ==
    IF price_info # None THEN price_info.price_usd ELSE purchase_price_usd

\* The operands of the subtraction swapped
PositionPnlSwapped(current_value, invested) == RSub(invested, current_value)

PositionPnl(current_value, invested) == RSub(current_value, invested)

\* The percentage without its zero guard
PnlPctUnguarded(pnl, invested) == RMul(RDiv(pnl, invested), Hundred)

\* (pnl / invested * 100) if invested > 0 else 0, for a position and for the totals
PnlPct(pnl, invested) ==
    IF RPos(invested) THEN RMul(RDiv(pnl, invested), Hundred) ELSE Zero

\* The allocation without its zero guard
AllocationUnguarded(current_value, total_value) ==
    RMul(RDiv(current_value, total_value), Hundred)

\* (current_value / total_value * 100) if total_value > 0 else 0
Allocation(current_value, total_value) ==
    IF RPos(total_value) THEN RMul(RDiv(current_value, total_value), Hundred) ELSE Zero

\* One pass of the loop over positions: the detail appended for `position`
PositionDetail(position, prices, rate) ==
    LET ticker == position.ticker
        quantity == position.quantity
        purchase_price == position.purchase_price
        currency == detect_currency(ticker)
        purchase_price_usd == convert_to_usd(purchase_price, currency, rate)
        invested == RMul(quantity, purchase_price_usd)
        price_info == Get(prices, ticker)
        current_price == CurrentPrice(price_info, purchase_price)
        current_price_usd == CurrentPriceUsd(price_info, purchase_price_usd)
        current_value == RMul(quantity, current_price_usd)
        pnl == PositionPnl(current_value, invested)
    IN  [id |-> position.id,
         ticker |-> ticker,
         quantity |-> quantity,
         purchase_price |-> purchase_price,
         purchase_price_usd |-> purchase_price_usd,
         current_price |-> current_price,
         current_price_usd |-> current_price_usd,
         currency |-> currency,
         invested |-> invested,
         current_value |-> current_value,
         pnl |-> pnl,
         pnl_pct |-> PnlPct(pnl, invested),
         purchase_date |-> position.purchase_date]

\* positions_detail after the first loop
FirstPass(pos, prices, rate) ==
    [i \in 1..Len(pos) |-> PositionDetail(pos[i], prices, rate)]

\* "=" written for "+=": the total is the last position's value
AccumulateAssigns(details, field, n) ==
    IF n = 0 THEN Zero ELSE details[n][field]

\* total_invested = 0; total_invested += invested, in list order (likewise total_value)
RECURSIVE Accumulate(_, _, _)
Accumulate(details, field, n) ==
    IF n = 0 THEN Zero
    ELSE RAdd(Accumulate(details, field, n - 1), details[n][field])

TotalPnl(total_value, total_invested) == RSub(total_value, total_invested)

\* The second loop: detail['allocation'] = ...
WithAllocation(detail, total_value) ==
    [f \in DOMAIN detail \cup {"allocation"} |->
        IF f = "allocation" THEN Allocation(detail.current_value, total_value)
        ELSE detail[f]]

calculate_portfolio_metrics(pos, prices, rate) ==
    IF pos = <<>> THEN
        [total_invested |-> Zero, total_value |-> Zero, total_pnl |-> Zero,
         total_pnl_pct |-> Zero, positions_detail |-> <<>>]
    ELSE
        LET first == FirstPass(pos, prices, rate)
            total_invested == Accumulate(first, "invested", Len(first))
            total_value == Accumulate(first, "current_value", Len(first))
            total_pnl == TotalPnl(total_value, total_invested)
        IN  [total_invested |-> total_invested,
             total_value |-> total_value,
             total_pnl |-> total_pnl,
             total_pnl_pct |-> PnlPct(total_pnl, total_invested),
             positions_detail |->
                 [i \in 1..Len(first) |-> WithAllocation(first[i], total_value)]]

-----------------------------------------------------------------------------
(* Inputs *)

AAPL == <<"A", "A", "P", "L">>

YPFD_BA == <<"Y", "P", "F", "D", ".", "B", "A">>

PETR4_SA == <<"P", "E", "T", "R", "4", ".", "S", "A">>

PortfolioTickers == {AAPL, YPFD_BA, PETR4_SA}

\* Quantities of position rows; update_position writes a quantity unchecked,
\* so a row may hold 0
Quantities == {Num(0), Num(5), Num(10)}

\* Purchase prices in the ticker's own currency
PurchasePrices(t) == IF detect_currency(t) = "ARS" THEN {Num(1000)} ELSE {Num(100)}

\* Last closes a price history can end with
Closes == {Num(1), Num(150)}

Position(i, t, q, p) ==
    [id |-> i, ticker |-> t, quantity |-> q, purchase_price |-> p,
     purchase_date |-> "2024-01-15"]

\* Position rows of a user, ids in table order
PositionRows ==
    UNION {{<<t, q, p>> : q \in Quantities, p \in PurchasePrices(t)} : t \in PortfolioTickers}

PositionLists ==
    UNION {
        {[i \in 1..n |-> Position(i, c[i][1], c[i][2], c[i][3])] : c \in [1..n -> PositionRows]}
        : n \in 0..MaxPositions}

QuotesFor(t) == {get_current_price(t, c, r) : c \in Closes, r \in Rates}

AllQuotes == UNION {QuotesFor(t) : t \in PortfolioTickers}

TickersOf(pos) == {pos[i].ticker : i \in 1..Len(pos)}

\* Quote maps over the tickers of the positions; a ticker may have no quote
QuoteMaps(pos) ==
    UNION {
        {m \in [K -> AllQuotes] : \A t \in K : m[t] \in QuotesFor(t)}
        : K \in SUBSET TickersOf(pos)}

Pending == [status |-> "pending"]

-----------------------------------------------------------------------------
(* The portfolio pages: the rate source moves, the metrics are recomputed *)

InitDetectIdle ==
    /\ det_ticker = <<>>
    /\ det_result = Pending

InitConvertIdle ==
    /\ conv_price = Zero
    /\ conv_currency = "USD"
    /\ conv_result = Pending

InitMetricsIdle ==
    /\ positions = <<>>
    /\ current_prices = <<>>
    /\ metrics = <<>>

InitQuoteIdle ==
    /\ q_ticker = <<>>
    /\ q_close = Zero
    /\ quote = Pending

InitSeriesIdle ==
    /\ data = <<>>
    /\ ind = Pending

InitInterpretIdle ==
    /\ reading = <<>>
    /\ verdict = Pending

InitSummaryIdle == summary = Pending

InitSessionIdle ==
    /\ session_state = <<>>
    /\ accounts = <<>>
    /\ rendered = Pending

InitUiIdle == InitInterpretIdle /\ InitSummaryIdle /\ InitSessionIdle

Init ==
    /\ positions \in PositionLists
    /\ current_prices \in QuoteMaps(positions)
    /\ usd_ars \in Rates
    /\ metrics = <<>>
    /\ InitDetectIdle
    /\ InitConvertIdle
    /\ InitQuoteIdle
    /\ InitUiIdle
    /\ InitSeriesIdle

\* get_usd_ars_rate's cached value expires and the next lookup returns another
RateChange ==
    /\ \E r \in Rates \ {usd_ars} : usd_ars' = r
    /\ UNCHANGED <<positions, current_prices, metrics,
                   det_ticker, det_result, conv_price, conv_currency, conv_result,
                   quoteVars, seriesVars, uiVars>>

\* A variant that appends the position record itself to positions_detail and
\* sets its allocation there, so that the caller's list shows the field
CalculateMetricsInPlace ==
    /\ LET call == [rate |-> usd_ars,
                    result |-> calculate_portfolio_metrics(positions, current_prices, usd_ars)]
       IN  /\ metrics' = IF metrics = <<>> THEN <<call>> ELSE <<call, metrics[1]>>
           /\ positions' = [i \in 1..Len(positions) |->
                               [f \in DOMAIN positions[i] \cup {"allocation"} |->
                                   IF f = "allocation"
                                   THEN call.result.positions_detail[i].allocation
                                   ELSE positions[i][f]]]
    /\ UNCHANGED <<current_prices, usd_ars,
                   det_ticker, det_result, conv_price, conv_currency, conv_result,
                   quoteVars, seriesVars, uiVars>>

\* metrics = calculate_portfolio_metrics(positions, current_prices); the model
\* keeps the last two calls, latest first
CalculateMetrics ==
    /\ LET call == [rate |-> usd_ars,
                    result |-> calculate_portfolio_metrics(positions, current_prices, usd_ars)]
       IN  metrics' = IF metrics = <<>> THEN <<call>> ELSE <<call, metrics[1]>>
    /\ UNCHANGED <<positions, current_prices, usd_ars,
                   det_ticker, det_result, conv_price, conv_currency, conv_result,
                   quoteVars, seriesVars, uiVars>>

Next == RateChange \/ CalculateMetrics

Spec == Init /\ [][Next]_vars

-----------------------------------------------------------------------------
(* detect_currency applied to a ticker string *)

TickerChars == {".", "A", "B", "S", "M", "X", "a", "b", "s", "m", "x", "Z"}

ExampleTickers == {AAPL, <<"y", "p", "f", "d", ".", "b", "a">>, PETR4_SA}

TickerStrings ==
    UNION {[1..n -> TickerChars] : n \in 0..MaxTickerLen} \cup ExampleTickers

InitDetect ==
    /\ det_ticker \in TickerStrings
    /\ det_result = Pending
    /\ usd_ars = Num(FallbackRate)
    /\ InitMetricsIdle
    /\ InitConvertIdle
    /\ InitQuoteIdle
    /\ InitUiIdle
    /\ InitSeriesIdle

DetectCurrency ==
    /\ det_result = Pending
    /\ det_result' = [status |-> "returned", value |-> detect_currency(det_ticker)]
    /\ UNCHANGED <<positions, current_prices, usd_ars, metrics,
                   det_ticker, conv_price, conv_currency, conv_result,
                   quoteVars, seriesVars, uiVars>>

SpecDetect == InitDetect /\ [][DetectCurrency]_vars

-----------------------------------------------------------------------------
(* convert_to_usd applied to an amount and a currency code *)

CurrencyCodes == {"USD", "ARS", "BRL", "MXN", "EUR", "GBP"}

Amounts == {Num(k) : k \in 0..MaxAmount}

InitConvert ==
    /\ conv_price \in Amounts
    /\ conv_currency \in CurrencyCodes
    /\ conv_result = Pending
    /\ usd_ars \in Rates
    /\ InitMetricsIdle
    /\ InitDetectIdle
    /\ InitQuoteIdle
    /\ InitUiIdle
    /\ InitSeriesIdle

\* The function has no raise statement: it always returns
ConvertToUsd ==
    /\ conv_result = Pending
    /\ conv_result' = [status |-> "returned", rate |-> usd_ars,
                       value |-> convert_to_usd(conv_price, conv_currency, usd_ars)]
    /\ UNCHANGED <<positions, current_prices, usd_ars, metrics,
                   det_ticker, det_result, conv_price, conv_currency,
                   quoteVars, seriesVars, uiVars>>

NextConvert == RateChange \/ ConvertToUsd

SpecConvert == InitConvert /\ [][NextConvert]_vars

-----------------------------------------------------------------------------
(* get_current_price applied to a ticker whose history is not empty *)

WALMEX_MX == <<"W", "A", "L", "M", "E", "X", ".", "M", "X">>

QuoteTickers == PortfolioTickers \cup {WALMEX_MX}

\* Last closes with and without cents, and one large ARS price
QuoteCloses ==
    ({Norm(100 * k + c, 100) : k \in 0..MaxAmount, c \in {0, 3, 50}} \ {Zero})
        \cup {Norm(123456, 100)}

InitQuote ==
    /\ q_ticker \in QuoteTickers
    /\ q_close \in QuoteCloses
    /\ quote = Pending
    /\ usd_ars \in Rates
    /\ InitMetricsIdle
    /\ InitDetectIdle
    /\ InitConvertIdle
    /\ InitSeriesIdle
    /\ InitUiIdle

GetCurrentPrice ==
    /\ quote = Pending
    /\ quote' = [status |-> "returned", rate |-> usd_ars,
                 value |-> get_current_price(q_ticker, q_close, usd_ars)]
    /\ UNCHANGED <<positions, current_prices, usd_ars, metrics,
                   det_ticker, det_result, conv_price, conv_currency, conv_result,
                   q_ticker, q_close, seriesVars, uiVars>>

NextQuote == RateChange \/ GetCurrentPrice

SpecQuote == InitQuote /\ [][NextQuote]_vars

\* convert_metrics_to_ars: amount * usd_ars_rate
ToArs(amount, usd_ars_rate) == RMul(amount, usd_ars_rate)

-----------------------------------------------------------------------------
(* The indicator functions applied to the Close column of a price history *)

\* A history is drawn as a first close and the bar-to-bar moves that follow,
\* the moves repeating a short pattern: flat, rising, falling and zigzag
\* series with moves of different sizes
Steps == {-1, 0, 1, 2}

Patterns == UNION {[1..n -> Steps] : n \in 1..MaxPatternLen}

\* The sum of the first k moves of the pattern
RECURSIVE Moved(_, _)
Moved(pattern, k) == IF k = 0 THEN 0 ELSE Moved(pattern, k - 1) + pattern[k]

\* The close of bar i: the first close and the i - 1 moves since
Level(first, pattern, i) ==
    first + ((i - 1) \div Len(pattern)) * Moved(pattern, Len(pattern))
          + Moved(pattern, (i - 1) % Len(pattern))

History(first, pattern, n) == [i \in 1..n |-> Num(Level(first, pattern, i))]

\* Lengths below, at and above each indicator's window, and the short
\* histories whose exponential averages the integers of the model can hold
Around(p) == (p - Slack)..(p + Slack)

SeriesLengths ==
    (1..MaxMacdBars) \cup Around(RsiPeriod) \cup Around(BollingerPeriod) \cup Around(SmaShort)

\* The histories of about 200 bars repeat one move, or rise by 2 and fall by 1
LongPatterns == [1..1 -> Steps] \cup {<<2, -1>>}

SeriesInputs ==
    {History(300, pattern, n) : pattern \in Patterns, n \in SeriesLengths}
        \cup {History(300, pattern, n) : pattern \in LongPatterns, n \in Around(SmaLong)}
        \cup {History(7, pattern, n) : pattern \in Patterns, n \in 1..MaxMacdBars}

InitSeries ==
    /\ data \in SeriesInputs
    /\ ind = Pending
    /\ usd_ars = Num(FallbackRate)
    /\ InitMetricsIdle
    /\ InitDetectIdle
    /\ InitConvertIdle
    /\ InitQuoteIdle
    /\ InitUiIdle

Returned(fn, value) == [status |-> "returned", fn |-> fn, value |-> value]

CalculateRsi ==
    /\ ind = Pending
    /\ ind' = Returned("calculate_rsi", calculate_rsi(data, RsiPeriod))
    /\ UNCHANGED <<positions, current_prices, usd_ars, metrics,
                   det_ticker, det_result, conv_price, conv_currency, conv_result,
                   quoteVars, data, uiVars>>

\* The exponential averages of a history of n bars have denominators
\* 13^(n-1) * 27^(n-1) * 5^(n-1): the call is taken on the short histories
CalculateMacd ==
    /\ ind = Pending
    /\ Len(data) <= MaxMacdBars
    /\ ind' = Returned("calculate_macd", calculate_macd(data, MacdFast, MacdSlow, MacdSignal))
    /\ UNCHANGED <<positions, current_prices, usd_ars, metrics,
                   det_ticker, det_result, conv_price, conv_currency, conv_result,
                   quoteVars, data, uiVars>>

\* get_technical_indicators calls calculate_sma(data, 50) and calculate_sma(data, 200)
CalculateSma ==
    /\ ind = Pending
    /\ \E period \in {SmaShort, SmaLong} :
         ind' = Returned("calculate_sma",
                         [period |-> period, series |-> calculate_sma(data, period)])
    /\ UNCHANGED <<positions, current_prices, usd_ars, metrics,
                   det_ticker, det_result, conv_price, conv_currency, conv_result,
                   quoteVars, data, uiVars>>

CalculateBollingerBands ==
    /\ ind = Pending
    /\ ind' = Returned("calculate_bollinger_bands",
                       calculate_bollinger_bands(data, BollingerPeriod, BollingerStdDev))
    /\ UNCHANGED <<positions, current_prices, usd_ars, metrics,
                   det_ticker, det_result, conv_price, conv_currency, conv_result,
                   quoteVars, data, uiVars>>

NextSeries == CalculateRsi \/ CalculateMacd \/ CalculateSma \/ CalculateBollingerBands

SpecSeries == InitSeries /\ [][NextSeries]_vars

-----------------------------------------------------------------------------
(* get_technical_indicators applied to a downloaded history *)

\* The histories are flat up to their last bars, where the moves of a
\* pattern come: the exponential averages of such a history are the flat
\* close until the first move, so all indicators can be evaluated exactly
FirstCloses == {Num(300), Norm(2401, 8)}

LateHistory(first, pattern, n) ==
    LET moving == IF n < MaxMacdBars THEN n ELSE MaxMacdBars
    IN  [i \in 1..n |->
            IF i <= n - moving THEN first
            ELSE RAdd(first, Num(Level(0, pattern, i - (n - moving))))]

IndicatorInputs ==
    {<<>>}
    \cup {LateHistory(first, pattern, n) :
            first \in FirstCloses, pattern \in Patterns, n \in SeriesLengths}
    \cup {LateHistory(first, pattern, n) :
            first \in FirstCloses, pattern \in LongPatterns, n \in Around(SmaLong)}

InitIndicators ==
    /\ data \in IndicatorInputs
    /\ ind = Pending
    /\ usd_ars = Num(FallbackRate)
    /\ InitMetricsIdle
    /\ InitDetectIdle
    /\ InitConvertIdle
    /\ InitQuoteIdle
    /\ InitUiIdle

GetTechnicalIndicators ==
    /\ ind = Pending
    /\ ind' = Returned("get_technical_indicators", get_technical_indicators(data))
    /\ UNCHANGED <<positions, current_prices, usd_ars, metrics,
                   det_ticker, det_result, conv_price, conv_currency, conv_result,
                   quoteVars, data, uiVars>>

SpecIndicators == InitIndicators /\ [][GetTechnicalIndicators]_vars

-----------------------------------------------------------------------------
(* The interpreters applied to latest indicator values *)

\* RSI values at, next to and away from the two thresholds
RsiReadings ==
    {Num(0), Norm(2999, 100), Num(RsiOversold), Norm(3001, 100), Num(50),
     Norm(6999, 100), Num(RsiOverbought), Norm(7001, 100), Num(100)}

\* Values of the MACD line and of its signal line
MacdReadings == {Num(-1), Norm(-1, 100), Zero, Norm(1, 100), Num(1)}

\* Levels of the price and of the two averages, in every order
SmaLevels == {Num(99), Num(100), Num(101)}

LowerBand == Num(100)

\* The upper band: below the lower one, on it, and up to MaxBandWidth above
UpperBands == {RAdd(LowerBand, Num(w)) : w \in (-1)..MaxBandWidth}

\* Prices in half units from below the lower band to above the widest upper one
BandPrices == {RAdd(LowerBand, Norm(k, 2)) : k \in (-4)..(2 * MaxBandWidth + 4)}

MiddleOf(upper, lower) == RDiv(RAdd(upper, lower), Num(2))

InitInterpret ==
    /\ \/ reading \in {[fn |-> "interpret_rsi", rsi |-> x] : x \in RsiReadings}
       \/ reading = [fn |-> "interpret_rsi", rsi |-> None]
       \/ reading \in {[fn |-> "interpret_macd", macd |-> m, signal |-> g] :
                            m \in MacdReadings, g \in MacdReadings}
       \/ reading \in {[fn |-> "interpret_macd", macd |-> None, signal |-> g] :
                            g \in MacdReadings}
       \/ reading \in {[fn |-> "interpret_macd", macd |-> m, signal |-> None] :
                            m \in MacdReadings}
       \/ reading = [fn |-> "interpret_macd", macd |-> None, signal |-> None]
       \/ reading \in {[fn |-> "interpret_sma", current_price |-> p,
                          sma_50 |-> a, sma_200 |-> b] :
                            p \in SmaLevels, a \in SmaLevels, b \in SmaLevels}
       \/ reading \in {[fn |-> "interpret_sma", current_price |-> p,
                          sma_50 |-> a, sma_200 |-> None] :
                            p \in SmaLevels, a \in SmaLevels}
       \/ reading \in {[fn |-> "interpret_sma", current_price |-> p,
                          sma_50 |-> None, sma_200 |-> None] : p \in SmaLevels}
       \/ reading \in {[fn |-> "interpret_bollinger", current_price |-> p,
                          upper |-> u, middle |-> MiddleOf(u, LowerBand),
                          lower |-> LowerBand] :
                            p \in BandPrices, u \in UpperBands}
       \/ reading \in {[fn |-> "interpret_bollinger", current_price |-> p,
                          upper |-> None, middle |-> None, lower |-> None] :
                            p \in BandPrices}
    /\ verdict = Pending
    /\ usd_ars = Num(FallbackRate)
    /\ InitMetricsIdle
    /\ InitDetectIdle
    /\ InitConvertIdle
    /\ InitQuoteIdle
    /\ InitSeriesIdle
    /\ InitSummaryIdle
    /\ InitSessionIdle

otherThanInterpret ==
    <<positions, current_prices, usd_ars, metrics,
      det_ticker, det_result, conv_price, conv_currency, conv_result,
      quoteVars, seriesVars, reading, summary, sessionVars>>

InterpretRsi ==
    /\ verdict = Pending
    /\ reading.fn = "interpret_rsi"
    /\ verdict' = Returned("interpret_rsi", interpret_rsi(reading.rsi))
    /\ UNCHANGED otherThanInterpret

InterpretMacd ==
    /\ verdict = Pending
    /\ reading.fn = "interpret_macd"
    /\ verdict' = Returned("interpret_macd",
                           interpret_macd(reading.macd, reading.signal))
    /\ UNCHANGED otherThanInterpret

InterpretSma ==
    /\ verdict = Pending
    /\ reading.fn = "interpret_sma"
    /\ verdict' = Returned("interpret_sma",
                           interpret_sma(reading.current_price, reading.sma_50,
                                         reading.sma_200))
    /\ UNCHANGED otherThanInterpret

InterpretBollinger ==
    /\ verdict = Pending
    /\ reading.fn = "interpret_bollinger"
    /\ verdict' = Returned("interpret_bollinger",
                           interpret_bollinger(reading.current_price, reading.upper,
                                               reading.middle, reading.lower))
    /\ UNCHANGED otherThanInterpret

NextInterpret == InterpretRsi \/ InterpretMacd \/ InterpretSma \/ InterpretBollinger

SpecInterpret == InitInterpret /\ [][NextInterpret]_vars

-----------------------------------------------------------------------------
(* The technical analysis page shown for a downloaded history *)

InitAnalysis ==
    /\ data \in IndicatorInputs
    /\ ind = Pending
    /\ summary = Pending
    /\ usd_ars = Num(FallbackRate)
    /\ InitMetricsIdle
    /\ InitDetectIdle
    /\ InitConvertIdle
    /\ InitQuoteIdle
    /\ InitInterpretIdle
    /\ InitSessionIdle

\* analysis.show for the selected ticker and period
ShowAnalysis ==
    /\ summary = Pending
    /\ LET indicators == get_technical_indicators(data)
       IN  /\ ind' = Returned("get_technical_indicators", indicators)
           /\ summary' = ShowSummary(indicators)
    /\ UNCHANGED <<positions, current_prices, usd_ars, metrics,
                   det_ticker, det_result, conv_price, conv_currency, conv_result,
                   quoteVars, data, interpretVars, sessionVars>>

SpecAnalysis == InitAnalysis /\ [][ShowAnalysis]_vars

-----------------------------------------------------------------------------
(* pages/dashboard.py and pages/portfolio.py: the quotes of the positions, *)
(* then their metrics                                                      *)

\* get_current_price on the downloaded history: None when it is empty
FetchCurrentPrice(ticker, hist, rate) ==
    IF hist = <<>> THEN None ELSE get_current_price(ticker, Last(hist), rate)

\* The quote the pages build when get_current_price returns nothing
FallbackQuote(position, rate) ==
    LET currency == detect_currency(position.ticker)
    IN  [price |-> position.purchase_price,
         currency |-> currency,
         price_usd |-> convert_to_usd(position.purchase_price, currency, rate)]

\* A variant whose fallback quote rounds price_usd as get_current_price does
PageQuoteRounded(position, hist, rate) ==
    LET price_info == FetchCurrentPrice(position.ticker, hist, rate)
        fallback == FallbackQuote(position, rate)
    IN  IF price_info # None THEN price_info
        ELSE [fallback EXCEPT !.price_usd = Round2(@)]

PageQuote(position, hist, rate) ==
    LET price_info == FetchCurrentPrice(position.ticker, hist, rate)
    IN  IF price_info # None THEN price_info ELSE FallbackQuote(position, rate)

\* current_prices after the loop over the first n positions; a later
\* position of the same ticker overwrites the entry
RECURSIVE PageQuotes(_, _, _, _)
PageQuotes(pos, market, rate, n) ==
    IF n = 0 THEN <<>>
    ELSE LET before == PageQuotes(pos, market, rate, n - 1)
             ticker == pos[n].ticker
             q == PageQuote(pos[n], market[ticker], rate)
         IN  [t \in DOMAIN before \cup {ticker} |-> IF t = ticker THEN q ELSE before[t]]

\* Purchase prices in the ticker's own currency, with and without an exact
\* value in USD cents
PagePurchasePrices(t) ==
    CASE detect_currency(t) = "ARS" -> {Num(1000), Num(1003)}
      [] detect_currency(t) = "BRL" -> {Num(100), Norm(103, 100)}
      [] detect_currency(t) = "MXN" -> {Num(100)}
      [] OTHER -> {Num(100), Norm(15437, 100)}

PageRows ==
    UNION {{<<t, Num(10), p>> : p \in PagePurchasePrices(t)} : t \in QuoteTickers}

\* get_user_positions: the rows of the user, at least one
PagePositionLists ==
    UNION {
        {[i \in 1..n |-> Position(i, c[i][1], c[i][2], c[i][3])] : c \in [1..n -> PageRows]}
        : n \in 1..MaxPositions}

\* The one-day history of a ticker: empty, or one close, which may be a
\* purchase price
PageHistories(t) == {<<>>, <<Num(150)>>} \cup {<<p>> : p \in PagePurchasePrices(t)}

AllPageHistories == UNION {PageHistories(t) : t \in QuoteTickers}

Markets(pos) ==
    {m \in [TickersOf(pos) -> AllPageHistories] :
        \A t \in TickersOf(pos) : m[t] \in PageHistories(t)}

InitPages ==
    /\ positions \in PagePositionLists
    /\ current_prices = <<>>
    /\ metrics = <<>>
    /\ usd_ars \in Rates
    /\ InitDetectIdle
    /\ InitConvertIdle
    /\ InitQuoteIdle
    /\ InitSeriesIdle
    /\ InitUiIdle

\* show(): current_prices is filled for every position, then
\* calculate_portfolio_metrics(positions, current_prices) is called; the rate
\* is the cached one throughout
ShowPositions ==
    /\ \E market \in Markets(positions) :
          LET prices == PageQuotes(positions, market, usd_ars, Len(positions))
              call == [rate |-> usd_ars,
                       result |-> calculate_portfolio_metrics(positions, prices, usd_ars)]
          IN  /\ current_prices' = prices
              /\ metrics' = <<call>>
    /\ UNCHANGED <<positions, usd_ars,
                   det_ticker, det_result, conv_price, conv_currency, conv_result,
                   quoteVars, seriesVars, uiVars>>

NextPages == RateChange \/ ShowPositions

SpecPages == InitPages /\ [][NextPages]_vars

-----------------------------------------------------------------------------
(* The application script and utils/auth.py: a session of the application. *)
(* Streamlit runs the script from the top at every interaction; st.rerun() *)
(* abandons the run, discards what it wrote and starts the next one.       *)

AppPages == {"dashboard", "portfolio", "analysis", "profile"}

\* key in st.session_state
Has(s, key) == key \in DOMAIN s

\* st.session_state.key = value
Set(s, key, value) == [k \in DOMAIN s \cup {key} |-> IF k = key THEN value ELSE s[k]]

\* del st.session_state.key
Del(s, key) == [k \in DOMAIN s \ {key} |-> s[k]]

\* What a finished run left on the screen: the page, the user the page was
\* shown for, the message under the form
Screen(page, shown_for, message) ==
    [page |-> page, shown_for |-> shown_for, message |-> message]

\* The dictionary login_user and register_user return for a signed-in user
UserOf(email) == [id |-> <<"id of", email>>, email |-> email, access_token |-> "token"]

\* sign_in_with_password succeeds for a registered email with its password;
\* an exception of the client is caught and None is returned
login_user(accts, email, password, up) ==
    IF up /\ email \in DOMAIN accts /\ accts[email] = password
    THEN UserOf(email) ELSE None

\* sign_up succeeds for an email that is not registered
register_user(accts, email, password, up) ==
    IF up /\ email \notin DOMAIN accts THEN UserOf(email) ELSE None

\* A variant that leaves current_page as it is
LogoutKeepsPage(s) ==
    LET s1 == Set(s, "user", None)
    IN  IF Has(s1, "portfolio_data") THEN Del(s1, "portfolio_data") ELSE s1

logout_user(s) ==
    LET s1 == Set(Set(s, "user", None), "current_page", "dashboard")
    IN  IF Has(s1, "portfolio_data") THEN Del(s1, "portfolio_data") ELSE s1

Outcome(s, screen) == [session_state |-> s, rendered |-> screen]

\* main(): 'user' is initialised
WithUser(s) == IF Has(s, "user") THEN s ELSE Set(s, "user", None)

\* show_app(): 'current_page' is initialised
WithPage(s) == IF Has(s, "current_page") THEN s ELSE Set(s, "current_page", "dashboard")

\* The if/elif chain at the end of show_app
Content(s) ==
    CASE s.current_page = "dashboard" -> Screen("dashboard", s.user, "")
      [] s.current_page = "portfolio" -> Screen("portfolio", s.user, "")
      [] s.current_page = "analysis" -> Screen("analysis", s.user, "")
      [] s.current_page = "profile" -> Screen("profile", s.user, "")
      [] OTHER -> Screen("sidebar", s.user, "")

\* A run of the script in which no button is pressed; message is what the
\* authentication page shows under its form
main(s, message) ==
    LET s1 == WithUser(s)
    IN  IF s1.user = None THEN Outcome(s1, Screen("auth", None, message))
        ELSE LET s2 == WithPage(s1)
             IN  Outcome(s2, Content(s2))

\* The run in which the login form is submitted
SubmitLogin(s, accts, email, password, up) ==
    LET s1 == WithUser(s)
        signed == login_user(accts, email, password, up)
    IN  IF email = "" \/ password = <<>>
        THEN main(s1, "Por favor completa todos los campos")
        ELSE IF signed # None THEN main(Set(s1, "user", signed), "")
        ELSE main(s1, "Email o contrasena incorrectos")

\* The run in which the registration form is submitted
SubmitRegister(s, accts, email, password, confirm, up) ==
    LET s1 == WithUser(s)
        signed == register_user(accts, email, password, up)
    IN  IF email = "" \/ password = <<>> \/ confirm = <<>>
        THEN main(s1, "Por favor completa todos los campos")
        ELSE IF password # confirm THEN main(s1, "Las contrasenas no coinciden")
        ELSE IF Len(password) < 6
        THEN main(s1, "La contrasena debe tener al menos 6 caracteres")
        ELSE IF signed # None THEN main(Set(s1, "user", signed), "")
        ELSE main(s1, "Error al crear la cuenta. El email puede estar en uso.")

\* Whether that submission reaches register_user and the account is created
Registers(accts, email, password, confirm, up) ==
    /\ email # "" /\ password # <<>> /\ password = confirm /\ Len(password) >= 6
    /\ register_user(accts, email, password, up) # None

Emails == {"ana@example.com", "luis@example.com"}

EmailInputs == Emails \cup {""}

Secret == <<"s", "e", "c", "r", "e", "t">>

Hunter2 == <<"h", "u", "n", "t", "e", "r", "2">>

PasswordInputs == {<<>>, <<"a", "b", "c">>, Secret, Hunter2}

\* The accounts that exist when the session starts
AccountSets == UNION {[K -> {Secret, Hunter2}] : K \in SUBSET Emails}

InitSession ==
    /\ session_state = <<>>
    /\ accounts \in AccountSets
    /\ rendered = Pending
    /\ usd_ars = Num(FallbackRate)
    /\ InitMetricsIdle
    /\ InitDetectIdle
    /\ InitConvertIdle
    /\ InitQuoteIdle
    /\ InitSeriesIdle
    /\ InitInterpretIdle
    /\ InitSummaryIdle

otherThanSession ==
    <<positions, current_prices, usd_ars, metrics,
      det_ticker, det_result, conv_price, conv_currency, conv_result,
      quoteVars, seriesVars, interpretVars, summary>>

Leaves(outcome) ==
    /\ session_state' = outcome.session_state
    /\ rendered' = outcome.rendered

OnAuthPage == rendered # Pending /\ rendered.page = "auth"

OnAppPage == rendered # Pending /\ rendered.page \in AppPages

\* The browser opens the application
Load ==
    /\ rendered = Pending
    /\ Leaves(main(session_state, ""))
    /\ UNCHANGED <<accounts, otherThanSession>>

\* "Iniciar Sesion" is pressed on the authentication page
Login ==
    /\ OnAuthPage
    /\ \E email \in EmailInputs, password \in PasswordInputs, up \in BOOLEAN :
          Leaves(SubmitLogin(session_state, accounts, email, password, up))
    /\ UNCHANGED <<accounts, otherThanSession>>

\* "Registrarse" is pressed on the authentication page
Register ==
    /\ OnAuthPage
    /\ \E email \in EmailInputs, password \in PasswordInputs,
          confirm \in PasswordInputs, up \in BOOLEAN :
          /\ Leaves(SubmitRegister(session_state, accounts, email, password, confirm, up))
          /\ accounts' = IF Registers(accounts, email, password, confirm, up)
                          THEN Set(accounts, email, password)
                          ELSE accounts
    /\ UNCHANGED otherThanSession

\* A navigation button of the sidebar is pressed: current_page is set and
\* the script is run again
Navigate ==
    /\ OnAppPage
    /\ \E page_key \in AppPages :
          Leaves(main(Set(WithPage(session_state), "current_page", page_key), ""))
    /\ UNCHANGED <<accounts, otherThanSession>>

\* "Cerrar Sesion" is pressed: logout_user(), then the script is run again
Logout ==
    /\ OnAppPage
    /\ Leaves(main(logout_user(session_state), ""))
    /\ UNCHANGED <<accounts, otherThanSession>>

NextSession == Load \/ Login \/ Register \/ Navigate \/ Logout

SpecSession == InitSession /\ [][NextSession]_vars

-----------------------------------------------------------------------------
(* Properties of calculate_portfolio_metrics (specification Spec) *)

Called == metrics # <<>>

Result == metrics[1].result

Details == Result.positions_detail

HasQuote(i) == positions[i].ticker \in DOMAIN current_prices

\* The sum of a field over the details, taken from the end of the list
RECURSIVE SumFrom(_, _, _)
SumFrom(details, field, i) ==
    IF i > Len(details) THEN Zero
    ELSE RAdd(details[i][field], SumFrom(details, field, i + 1))

\* x = y / z * 100, stated without a division
IsPercentOf(x, y, z) == ~IsRaised(x) /\ RMul(x, z) = RMul(y, Hundred)

\* The currency of a portfolio ticker and what one USD costs in it
TickerCurrency(t) ==
    IF t = YPFD_BA THEN "ARS" ELSE IF t = PETR4_SA THEN "BRL" ELSE "USD"

UnitsPerUsd(t, rate) ==
    IF t = YPFD_BA THEN rate ELSE IF t = PETR4_SA THEN Num(5) ELSE Num(1)

\* C1: every reported position has pnl = current_value - invested, exactly,
\* whether its ticker has a quote or not and whatever its currency.
C1_PnlIsValueMinusInvested ==
    Called =>
        \A i \in 1..Len(Details) :
            /\ ~IsRaised(Details[i].pnl)
            /\ RAdd(Details[i].pnl, Details[i].invested) = Details[i].current_value

C1_Witness ==
    /\ Called
    /\ \E i, j \in 1..Len(Details) :
        /\ HasQuote(i)
        /\ Details[i].currency = "ARS"
        /\ RPos(Details[i].invested)
        /\ Details[i].pnl # Zero
        /\ ~HasQuote(j)

\* C2: for a non-empty portfolio each allocation is current_value /
\* total_value * 100 and the allocations sum to 100 when total_value > 0; when
\* total_value is 0 every allocation is 0 and nothing is divided.
C2_AllocationsSumTo100 ==
    (Called /\ positions # <<>>) =>
        /\ \A i \in 1..Len(Details) : ~IsRaised(Details[i].allocation)
        /\ RPos(Result.total_value) =>
            /\ \A i \in 1..Len(Details) :
                IsPercentOf(Details[i].allocation, Details[i].current_value,
                            Result.total_value)
            /\ SumFrom(Details, "allocation", 1) = Num(100)
        /\ Result.total_value = Zero =>
            \A i \in 1..Len(Details) : Details[i].allocation = Zero

C2_Witness ==
    /\ Called
    /\ Len(Details) = 2
    /\ RPos(Details[1].allocation)
    /\ RPos(Details[2].allocation)
    /\ Details[1].allocation # Details[2].allocation

\* C3: a position whose ticker has a quote reports invested = quantity x
\* (purchase price in USD), current_value = quantity x (the quote's USD price)
\* and pnl_pct = pnl / invested x 100 when invested > 0; 10 AAPL bought at 100
\* and quoted at 150 give 1000, 1500, 500, 50 and 100.
C3_QuotedPositionValues ==
    Called =>
        /\ \A i \in 1..Len(Details) :
            HasQuote(i) =>
                /\ Details[i].currency = TickerCurrency(positions[i].ticker)
                /\ RMul(Details[i].invested, UnitsPerUsd(positions[i].ticker, metrics[1].rate))
                       = RMul(positions[i].quantity, positions[i].purchase_price)
                /\ Details[i].current_value
                       = RMul(positions[i].quantity,
                              current_prices[positions[i].ticker].price_usd)
                /\ RPos(Details[i].invested) =>
                       IsPercentOf(Details[i].pnl_pct, Details[i].pnl, Details[i].invested)
        /\ ( /\ positions = <<Position(1, AAPL, Num(10), Num(100))>>
             /\ AAPL \in DOMAIN current_prices
             /\ current_prices[AAPL].price = Num(150) ) =>
                /\ Details[1].invested = Num(1000)
                /\ Details[1].current_value = Num(1500)
                /\ Details[1].pnl = Num(500)
                /\ Details[1].pnl_pct = Num(50)
                /\ Details[1].allocation = Num(100)

C3_Witness ==
    /\ Called
    /\ positions = <<Position(1, AAPL, Num(10), Num(100))>>
    /\ AAPL \in DOMAIN current_prices
    /\ current_prices[AAPL].price = Num(150)
    /\ Details[1].pnl_pct = Num(50)

\* C4: total_invested and total_value are the sums of the positions' invested
\* and current_value, total_pnl is their difference and the sum of the pnl, and
\* positions_detail has one entry per position in input order; an empty list
\* gives zero totals and no detail.
C4_TotalsAreSums ==
    Called =>
        /\ Result.total_invested = SumFrom(Details, "invested", 1)
        /\ Result.total_value = SumFrom(Details, "current_value", 1)
        /\ Result.total_pnl = RSub(Result.total_value, Result.total_invested)
        /\ Result.total_pnl = SumFrom(Details, "pnl", 1)
        /\ Len(Details) = Len(positions)
        /\ \A i \in 1..Len(positions) :
            /\ Details[i].id = positions[i].id
            /\ Details[i].ticker = positions[i].ticker
        /\ positions = <<>> =>
            /\ Result.total_invested = Zero
            /\ Result.total_value = Zero
            /\ Result.total_pnl = Zero
            /\ Result.total_pnl_pct = Zero

C4_Witness ==
    /\ Called
    /\ Len(Details) = 2
    /\ Details[1].ticker # Details[2].ticker
    /\ RPos(Details[1].invested)
    /\ RPos(Details[2].invested)
    /\ Details[1].pnl # Zero
    /\ Result.total_pnl # Zero

\* C5: a position whose ticker has no quote is valued at its purchase price:
\* current_value = invested, pnl = 0, pnl_pct = 0, and the call does not fail;
\* 5 YPFD.BA bought at 1000 ARS with rate 1000 give invested 5 and value 5.
C5_MissingQuoteFallsBack ==
    Called =>
        /\ \A i \in 1..Len(Details) :
            ~HasQuote(i) =>
                /\ ~IsRaised(Details[i].current_value)
                /\ Details[i].current_price = positions[i].purchase_price
                /\ Details[i].current_value = Details[i].invested
                /\ Details[i].pnl = Zero
                /\ Details[i].pnl_pct = Zero
        /\ ( /\ positions = <<Position(1, YPFD_BA, Num(5), Num(1000))>>
             /\ current_prices = <<>>
             /\ metrics[1].rate = Num(1000) ) =>
                /\ Details[1].purchase_price_usd = Num(1)
                /\ Details[1].invested = Num(5)
                /\ Details[1].current_value = Num(5)
                /\ Details[1].pnl = Zero

C5_Witness ==
    /\ Called
    /\ positions = <<Position(1, YPFD_BA, Num(5), Num(1000))>>
    /\ current_prices = <<>>
    /\ metrics[1].rate = Num(1000)
    /\ Details[1].invested = Num(5)

\* C6: no percentage divides by zero: pnl_pct is 0 when invested is 0 and
\* total_pnl_pct is 0 when total_invested is 0; otherwise the percentage is
\* pnl / invested x 100.
C6_PercentagesGuarded ==
    Called =>
        /\ ~IsRaised(Result.total_pnl_pct)
        /\ Result.total_invested = Zero => Result.total_pnl_pct = Zero
        /\ Result.total_invested # Zero =>
               IsPercentOf(Result.total_pnl_pct, Result.total_pnl, Result.total_invested)
        /\ \A i \in 1..Len(Details) :
            /\ ~IsRaised(Details[i].pnl_pct)
            /\ Details[i].invested = Zero => Details[i].pnl_pct = Zero
            /\ Details[i].invested # Zero =>
                   IsPercentOf(Details[i].pnl_pct, Details[i].pnl, Details[i].invested)

C6_Witness ==
    /\ Called
    /\ Len(Details) = 2
    /\ Details[1].invested = Zero
    /\ Details[1].pnl_pct = Zero
    /\ RPos(Details[2].invested)
    /\ Details[2].pnl_pct # Zero

\* Whether the ticker ends in .BA whatever the case of its letters
EndsInBA(t) ==
    /\ Len(t) >= 3
    /\ t[Len(t) - 2] = "."
    /\ t[Len(t) - 1] \in {"B", "b"}
    /\ t[Len(t)] \in {"A", "a"}

\* C10: two calls with the same positions and the same quotes return the same
\* metrics, whatever the exchange-rate source returned in between.
C10_SameArgumentsSameMetrics ==
    Len(metrics) = 2 => metrics[1].result = metrics[2].result

\* The value of get_usd_ars_rate is the only thing outside the arguments the
\* result depends on, and only through .BA tickers: two calls that read the
\* same rate, or that value no .BA ticker, return the same metrics.
RateIsTheOnlyHiddenInput ==
    ( /\ Len(metrics) = 2
      /\ \/ metrics[1].rate = metrics[2].rate
         \/ \A i \in 1..Len(positions) : ~EndsInBA(positions[i].ticker) )
        => metrics[1].result = metrics[2].result

RateIsTheOnlyHiddenInput_Witness ==
    /\ Len(metrics) = 2
    /\ metrics[1].rate # metrics[2].rate
    /\ Len(positions) = 2
    /\ positions[1].ticker = PETR4_SA
    /\ positions[2].ticker = AAPL
    /\ RPos(metrics[1].result.total_invested)
    /\ metrics[1].result = metrics[2].result

-----------------------------------------------------------------------------
(* Properties of detect_currency (specification SpecDetect) *)

EndsInSA(t) ==
    /\ Len(t) >= 3
    /\ t[Len(t) - 2] = "."
    /\ t[Len(t) - 1] \in {"S", "s"}
    /\ t[Len(t)] \in {"A", "a"}

EndsInMX(t) ==
    /\ Len(t) >= 3
    /\ t[Len(t) - 2] = "."
    /\ t[Len(t) - 1] \in {"M", "m"}
    /\ t[Len(t)] \in {"X", "x"}

\* C7: detect_currency returns ARS for a ticker ending in .BA, BRL for .SA,
\* MXN for .MX, whatever the case, and USD for every other ticker; it returns
\* exactly one of these four for every ticker string.
C7_DetectCurrencyBySuffix ==
    det_result.status = "returned" =>
        /\ det_result.value \in {"USD", "ARS", "BRL", "MXN"}
        /\ det_result.value = "ARS" <=> EndsInBA(det_ticker)
        /\ det_result.value = "BRL" <=> EndsInSA(det_ticker)
        /\ det_result.value = "MXN" <=> EndsInMX(det_ticker)
        /\ det_ticker = AAPL => det_result.value = "USD"
        /\ det_ticker = <<"y", "p", "f", "d", ".", "b", "a">> => det_result.value = "ARS"
        /\ det_ticker = PETR4_SA => det_result.value = "BRL"

C7_Witness ==
    /\ det_result.status = "returned"
    /\ det_ticker = <<"y", "p", "f", "d", ".", "b", "a">>
    /\ det_result.value = "ARS"

-----------------------------------------------------------------------------
(* Properties of get_current_price (specification SpecQuote) *)

Cent == Norm(1, 100)

\* What one USD costs in the currency, the rate convert_to_usd divides by
RateOf(currency, rate) ==
    IF currency = "ARS" THEN rate
    ELSE IF currency = "BRL" THEN Num(BrlDivisor)
    ELSE IF currency = "MXN" THEN Num(MxnDivisor)
    ELSE Num(1)

WithinCent(x, y) == ~IsRaised(x) /\ ~IsRaised(y) /\ RLe(RAbs(RSub(x, y)), Cent)

\* C12: a price in a currency other than USD, converted to USD and multiplied
\* back by the same rate, is the original price within 0.01; this holds for
\* the value convert_to_usd returns and for the price_usd stored in the quote
\* that get_current_price builds.
C12_RoundTripWithinCent ==
    (quote # Pending /\ quote.value.currency # "USD") =>
        LET q == quote.value
            r == RateOf(q.currency, quote.rate)
        IN  /\ WithinCent(ToArs(convert_to_usd(q.price, q.currency, quote.rate), r), q.price)
            /\ WithinCent(ToArs(q.price_usd, r), q.price)

\* What does hold of the round trip: the unrounded value of convert_to_usd,
\* multiplied back, is the price; and the stored price_usd is within half a
\* cent of that value, which is half a cent times the rate in the currency.
RoundTripOfUnroundedValue ==
    (quote # Pending /\ quote.value.currency # "USD") =>
        LET q == quote.value
            r == RateOf(q.currency, quote.rate)
            usd == convert_to_usd(q.price, q.currency, quote.rate)
        IN  /\ ToArs(usd, r) = q.price
            /\ RLe(RAbs(RSub(RMul(q.price_usd, Num(2)), RMul(usd, Num(2)))), Cent)

RoundTripOfUnroundedValue_Witness ==
    /\ quote # Pending
    /\ quote.value.currency = "ARS"
    /\ quote.value.price = Norm(123456, 100)
    /\ quote.value.price_usd = Norm(123, 100)

-----------------------------------------------------------------------------
(* Properties of the indicator functions (specification SpecSeries) *)

Rsi == ind.value

RsiReturned == ind # Pending /\ ind.fn = "calculate_rsi"

\* C13: every RSI value that is defined lies between 0 and 100, both included.
C13_RsiWithinBounds ==
    RsiReturned =>
        \A i \in 1..Len(Rsi) :
            ~IsNaN(Rsi[i]) =>
                /\ IsFinite(Rsi[i])
                /\ RLe(Zero, Rsi[i])
                /\ RLe(Rsi[i], Hundred)

C13_Witness ==
    /\ RsiReturned
    /\ Len(data) > RsiPeriod
    /\ \E i \in 1..Len(Rsi) :
         /\ IsFinite(Rsi[i])
         /\ Rsi[i] # Zero
         /\ Rsi[i] # Hundred
    /\ \E i \in 1..Len(Rsi) : IsNaN(Rsi[i])

\* C14: for a history of exactly 14 bars calculate_rsi yields no value at any
\* of the 14 bars, the 14th included.
C14_RsiUndefinedOnFourteenBars ==
    (RsiReturned /\ Len(data) = RsiPeriod) =>
        \A i \in 1..RsiPeriod : IsNaN(Rsi[i])

\* What does hold of the first bars: the 13 bars before the window of 14 is
\* full have no value, and the 14th bar has one unless no close moved.
RsiDefinedFromFourteenthBar ==
    RsiReturned =>
        /\ \A i \in 1..Len(data) : i < RsiPeriod => IsNaN(Rsi[i])
        /\ Len(data) >= RsiPeriod =>
              (IsNaN(Rsi[RsiPeriod]) <=> \A i \in 1..RsiPeriod : data[i] = data[1])

RsiDefinedFromFourteenthBar_Witness ==
    /\ RsiReturned
    /\ Len(data) = RsiPeriod
    /\ Rsi[RsiPeriod] = Hundred

MeanLoss == RollingMean(Losses(Diff(data)), RsiPeriod)

MeanGain == RollingMean(Gains(Diff(data)), RsiPeriod)

\* C15: at every bar whose window of 14 is complete and whose mean loss is 0,
\* calculate_rsi yields exactly 100 and never an undefined value, whether the
\* mean gain of the window is positive or 0 as well (flat closes).
C15_RsiSaturatesAtHundred ==
    RsiReturned =>
        \A i \in 1..Len(data) :
            (i >= RsiPeriod /\ MeanLoss[i] = Zero) => Rsi[i] = Hundred

\* What does hold: with mean loss 0 the value is 100 when some close of the
\* window rose and NaN when none did.
RsiWithoutLosses ==
    RsiReturned =>
        \A i \in 1..Len(data) :
            (i >= RsiPeriod /\ MeanLoss[i] = Zero) =>
                Rsi[i] = IF MeanGain[i] = Zero THEN NaN ELSE Hundred

RsiWithoutLosses_Witness ==
    /\ RsiReturned
    /\ Len(data) > RsiPeriod
    /\ MeanLoss[Len(data)] = Zero
    /\ MeanGain[Len(data)] = Zero
    /\ IsNaN(Rsi[Len(data)])

MacdReturned == ind # Pending /\ ind.fn = "calculate_macd"

RECURSIVE RPow(_, _)
RPow(x, k) == IF k = 0 THEN Num(1) ELSE RMul(x, RPow(x, k - 1))

\* The reference average written out: the first bar weighs (1 - alpha)^(t-1)
\* and bar i > 1 weighs alpha * (1 - alpha)^(t-i)
RECURSIVE RefTerms(_, _, _, _)
RefTerms(s, span, t, i) ==
    IF i > t THEN Zero
    ELSE RAdd(RMul(RMul(IF i = 1 THEN Num(1) ELSE Alpha(span),
                        RPow(RSub(Num(1), Alpha(span)), t - i)), s[i]),
              RefTerms(s, span, t, i + 1))

RefEma(s, span) == [t \in 1..Len(s) |-> RefTerms(s, span, t, 1)]

RefMacd ==
    LET fast == RefEma(data, MacdFast)
        slow == RefEma(data, MacdSlow)
    IN  [t \in 1..Len(data) |-> RSub(fast[t], slow[t])]

SmaReturned == ind # Pending /\ ind.fn = "calculate_sma"

\* The sum of the closes of bars lo..hi, by halves
RECURSIVE SumOfCloses(_, _)
SumOfCloses(lo, hi) ==
    IF lo > hi THEN Zero
    ELSE IF lo = hi THEN data[lo]
    ELSE LET mid == (lo + hi) \div 2
         IN  RAdd(SumOfCloses(lo, mid), SumOfCloses(mid + 1, hi))

IsFlat == \A i \in 1..Len(data) : data[i] = data[1]

\* C17: calculate_sma(period) yields, at every bar from the period-th on,
\* the arithmetic mean of the last `period` closes and no value at the bars
\* before; the 50-bar mean has a value whenever 50 bars exist, also when the
\* 200-bar mean has none; on a constant history the mean is the constant.
C17_SmaIsMeanOfLastCloses ==
    SmaReturned =>
        LET period == ind.value.period
            sma == ind.value.series
        IN  /\ Len(sma) = Len(data)
            /\ \A i \in 1..Len(data) :
                  IF i < period THEN IsNaN(sma[i])
                  ELSE /\ IsFinite(sma[i])
                       /\ RMul(sma[i], Num(period)) = SumOfCloses(i - period + 1, i)
                       /\ IsFlat => sma[i] = data[1]
            /\ (period = SmaShort /\ Len(data) >= SmaShort) => IsFinite(sma[Len(data)])

C17_Witness ==
    /\ SmaReturned
    /\ ind.value.period = SmaShort
    /\ Len(data) > SmaShort
    /\ Len(data) < SmaLong
    /\ IsNaN(ind.value.series[SmaShort - 1])
    /\ IsFinite(ind.value.series[SmaShort])
    /\ ind.value.series[Len(data)] # ind.value.series[SmaShort]
    /\ ind.value.series[Len(data)] # data[Len(data)]

BollingerReturned == ind # Pending /\ ind.fn = "calculate_bollinger_bands"

\* The sum of the squares of the closes of bars lo..hi
RECURSIVE SumOfSquares(_, _)
SumOfSquares(lo, hi) ==
    IF lo > hi THEN Zero
    ELSE IF lo = hi THEN RMul(data[lo], data[lo])
    ELSE LET mid == (lo + hi) \div 2
         IN  RAdd(SumOfSquares(lo, mid), SumOfSquares(mid + 1, hi))

\* The sign of a + b * sqrt(v), for v >= 0
SignOfSurd(a, b, v) ==
    LET sa == NpSign(a)
        sb == IF v = Zero THEN 0 ELSE NpSign(b)
    IN  IF sb = 0 THEN sa
        ELSE IF sa = 0 \/ sa = sb THEN sb
        ELSE LET a2 == RMul(a, a)
                 b2v == RMul(RMul(b, b), v)
             IN  IF a2 = b2v THEN 0 ELSE IF RLe(a2, b2v) THEN sb ELSE sa

\* x <= r and r <= x for a band value x and a float r
SurdLe(x, r) == SignOfSurd(RSub(x.rat, r), x.coef, x.rad) <= 0

SurdGe(x, r) == SignOfSurd(RSub(x.rat, r), x.coef, x.rad) >= 0

\* C18: with period 20 and k = 2 the middle band is the 20-bar mean, the
\* upper band is middle + 2 * std and the lower band middle - 2 * std, std
\* being the sample standard deviation (divisor 19) of the window; at every
\* bar with a value lower <= middle <= upper and upper - middle = middle -
\* lower; on a constant history the three bands are equal; no band has a
\* value before the 20th bar.
C18_BollingerBands ==
    BollingerReturned =>
        LET b == ind.value
            sma == calculate_sma(data, BollingerPeriod)
        IN  \A i \in 1..Len(data) :
              IF i < BollingerPeriod
              THEN IsNaN(b.middle[i]) /\ IsNaNSurd(b.upper[i]) /\ IsNaNSurd(b.lower[i])
              ELSE LET m == b.middle[i]
                       sum == SumOfCloses(i - BollingerPeriod + 1, i)
                       \* 19 * variance = sum of squares - (sum)^2 / 20
                       ss == RSub(SumOfSquares(i - BollingerPeriod + 1, i),
                                  RDiv(RMul(sum, sum), Num(BollingerPeriod)))
                       var == RDiv(ss, Num(BollingerPeriod - 1))
                   IN  /\ IsFinite(m) /\ m = sma[i]
                       /\ b.upper[i] = Surd(m, Num(2), var)
                       /\ b.lower[i] = Surd(m, Num(-2), var)
                       /\ SurdLe(b.lower[i], m) /\ SurdGe(b.upper[i], m)
                       /\ RSub(b.upper[i].rat, m) = RSub(m, b.lower[i].rat)
                       /\ b.upper[i].coef = RNeg(b.lower[i].coef)
                       /\ b.upper[i].rad = b.lower[i].rad
                       /\ IsFlat => (b.upper[i] = SurdOf(m) /\ b.lower[i] = SurdOf(m)
                                      /\ m = data[1])

C18_Witness ==
    /\ BollingerReturned
    /\ Len(data) > BollingerPeriod
    /\ IsNaNSurd(ind.value.upper[BollingerPeriod - 1])
    /\ ind.value.upper[Len(data)].coef = Num(2)
    /\ ind.value.lower[Len(data)].coef = Num(-2)
    /\ RPos(ind.value.upper[Len(data)].rad)
    /\ ind.value.middle[Len(data)] # data[Len(data)]

StrictlyIncreasing ==
    /\ Len(data) >= 2
    /\ \A i \in 2..Len(data) : NpGt(data[i], data[i - 1])

RisingMacd_Witness ==
    /\ StrictlyIncreasing
    /\ MacdReturned
    /\ Len(data) = 2
    /\ RPos(ind.value.macd[2])
    /\ RPos(ind.value.histogram[2])

-----------------------------------------------------------------------------
(* Properties of get_technical_indicators (specification SpecIndicators) *)

IndicatorsReturned ==
    ind # Pending /\ ind.fn = "get_technical_indicators" /\ ind.value # None

HalfCent == Norm(1, 200)

IsHundredths(x) == IsFinite(x) /\ 100 % x[2] = 0

\* x is what is reported for the float v: None for NaN, else the hundredths
\* nearest to v, and 0 for 0
ReportsFloat(x, v) ==
    IF IsNaN(v) THEN x = None
    ELSE /\ x # None
         /\ IsHundredths(x)
         /\ RLe(RAbs(RSub(x, v)), HalfCent)
         /\ v = Zero => x = Zero

\* The same for a band value b = rat + coef * sqrt(rad)
ReportsBand(x, b) ==
    IF IsNaNSurd(b) THEN x = None
    ELSE /\ x # None
         /\ IsHundredths(x)
         /\ SignOfSurd(RSub(RSub(b.rat, x), HalfCent), b.coef, b.rad) <= 0
         /\ SignOfSurd(RAdd(RSub(b.rat, x), HalfCent), b.coef, b.rad) >= 0

\* C20: get_technical_indicators reports each latest value (rsi, macd,
\* signal, histogram, sma_50, sma_200, the upper, middle and lower band) as
\* None exactly when the indicator has no value at the last bar, and as that
\* value rounded to 2 decimals otherwise; a missing value is never reported
\* as 0 nor left out, and a value of 0 is reported as 0.
C20_LatestValuesReported ==
    IndicatorsReturned =>
        LET r == ind.value
            m == calculate_macd(data, MacdFast, MacdSlow, MacdSignal)
            bb == calculate_bollinger_bands(data, BollingerPeriod, BollingerStdDev)
        IN  /\ {"rsi", "macd", "sma_50", "sma_200", "bollinger_bands"} \subseteq DOMAIN r
            /\ {"macd", "signal", "histogram"} \subseteq DOMAIN r.macd
            /\ {"upper", "middle", "lower"} \subseteq DOMAIN r.bollinger_bands
            /\ ReportsFloat(r.rsi, Last(calculate_rsi(data, RsiPeriod)))
            /\ ReportsFloat(r.macd.macd, Last(m.macd))
            /\ ReportsFloat(r.macd.signal, Last(m.signal))
            /\ ReportsFloat(r.macd.histogram, Last(m.histogram))
            /\ ReportsFloat(r.sma_50, Last(calculate_sma(data, SmaShort)))
            /\ ReportsFloat(r.sma_200, Last(calculate_sma(data, SmaLong)))
            /\ ReportsFloat(r.bollinger_bands.middle, Last(bb.middle))
            /\ ReportsBand(r.bollinger_bands.upper, Last(bb.upper))
            /\ ReportsBand(r.bollinger_bands.lower, Last(bb.lower))

C20_Witness ==
    /\ IndicatorsReturned
    /\ ind.value.rsi # None
    /\ ind.value.rsi = Zero
    /\ ind.value.macd.macd # None
    /\ ind.value.macd.macd # Zero
    /\ ind.value.sma_50 # None
    /\ ind.value.sma_50 # data[Len(data)]
    /\ ind.value.sma_200 = None
    /\ ind.value.bollinger_bands.upper # None
    /\ ind.value.bollinger_bands.upper # ind.value.bollinger_bands.middle

\* The result of get_technical_indicators on the history in data
TechnicalIndicatorsCalled ==
    ind # Pending /\ ind.fn = "get_technical_indicators"

\* C21: get_technical_indicators on an empty price series returns None (it
\* does not raise and builds no zero-filled indicator set), and on a history
\* that has bars it never returns None: it returns an indicator set in which
\* every indicator whose window is longer than the history is None.
C21_NoDataOnlyForEmptySeries ==
    TechnicalIndicatorsCalled =>
        /\ ind.status = "returned"
        /\ (data = <<>>) <=> (ind.value = None)
        /\ data # <<>> =>
              LET r == ind.value
                  n == Len(data)
              IN  /\ {"current_price", "rsi", "macd", "sma_50", "sma_200",
                       "bollinger_bands"} \subseteq DOMAIN r
                  /\ r.current_price # None
                  /\ n < RsiPeriod => r.rsi = None
                  /\ n < SmaShort => r.sma_50 = None
                  /\ n < SmaLong => r.sma_200 = None
                  /\ n < BollingerPeriod =>
                        /\ r.bollinger_bands.upper = None
                        /\ r.bollinger_bands.middle = None
                        /\ r.bollinger_bands.lower = None

\* Both cases are met: the empty history, and a history of fewer bars than
\* the shortest window
C21_Witness ==
    /\ TechnicalIndicatorsCalled
    /\ data = <<>>
    /\ ind.value = None

ShortHistory_Witness ==
    /\ IndicatorsReturned
    /\ Len(data) < RsiPeriod
    /\ ind.value.rsi = None
    /\ ind.value.sma_200 = None

-----------------------------------------------------------------------------
(* Properties of the interpreters (specification SpecInterpret) *)

Interpreted(fn) == verdict # Pending /\ verdict.fn = fn

\* C22: interpret_rsi reads an RSI of 70 or more as sobrecompra, of 30 or
\* less as sobreventa and anything strictly between as neutral; 70 itself is
\* sobrecompra and 30 itself is sobreventa.
C22_RsiThresholds ==
    (Interpreted("interpret_rsi") /\ reading.rsi # None) =>
        LET rsi == reading.rsi
            signal == verdict.value.signal
        IN  /\ RLe(Num(70), rsi) => signal = "sobrecompra"
            /\ RLe(rsi, Num(30)) => signal = "sobreventa"
            /\ (RGt(Num(70), rsi) /\ RGt(rsi, Num(30))) => signal = "neutral"

C22_Witness ==
    /\ Interpreted("interpret_rsi")
    /\ reading.rsi # None
    /\ reading.rsi = Num(70)
    /\ verdict.value.signal = "sobrecompra"

RsiAtThirty_Witness ==
    /\ Interpreted("interpret_rsi")
    /\ reading.rsi # None
    /\ reading.rsi = Num(30)
    /\ verdict.value.signal = "sobreventa"

\* Some indicator value handed to the interpreter is None
UndefinedInput ==
    CASE reading.fn = "interpret_rsi" -> reading.rsi = None
      [] reading.fn = "interpret_macd" ->
            reading.macd = None \/ reading.signal = None
      [] reading.fn = "interpret_sma" ->
            reading.sma_50 = None \/ reading.sma_200 = None
      [] reading.fn = "interpret_bollinger" ->
            reading.upper = None \/ reading.middle = None \/ reading.lower = None

\* C23: interpret_rsi, interpret_macd, interpret_sma and interpret_bollinger
\* given a None indicator value return signal neutral with the description
\* "Datos insuficientes", and no reading of defined values has that
\* description: a neutral RSI reading is described otherwise.
C23_InsufficientDataIsDistinct ==
    verdict # Pending =>
        /\ UndefinedInput =>
              /\ verdict.value.signal = "neutral"
              /\ verdict.value.description = "Datos insuficientes"
        /\ ~UndefinedInput => verdict.value.description # "Datos insuficientes"

C23_Witness ==
    /\ Interpreted("interpret_rsi")
    /\ reading.rsi = None
    /\ verdict.value.description = "Datos insuficientes"

NeutralRsi_Witness ==
    /\ Interpreted("interpret_rsi")
    /\ reading.rsi # None
    /\ verdict.value.signal = "neutral"
    /\ verdict.value.description # "Datos insuficientes"

UndefinedAverage_Witness ==
    /\ Interpreted("interpret_sma")
    /\ UndefinedInput
    /\ verdict.value.description = "Datos insuficientes"

UndefinedBand_Witness ==
    /\ Interpreted("interpret_bollinger")
    /\ UndefinedInput
    /\ verdict.value.description = "Datos insuficientes"

\* C24: interpret_macd reads alcista when the MACD line is above its signal
\* line and bajista otherwise; equal lines read bajista.
C24_MacdAboveSignal ==
    (Interpreted("interpret_macd") /\ ~UndefinedInput) =>
        LET signal == verdict.value.signal
        IN  IF RGt(reading.macd, reading.signal) THEN signal = "alcista"
            ELSE signal = "bajista"

C24_Witness ==
    /\ Interpreted("interpret_macd")
    /\ ~UndefinedInput
    /\ reading.macd = reading.signal
    /\ verdict.value.signal = "bajista"

MacdAbove_Witness ==
    /\ Interpreted("interpret_macd")
    /\ ~UndefinedInput
    /\ RGt(reading.macd, reading.signal)
    /\ verdict.value.signal = "alcista"

\* C25: interpret_sma reads muy_alcista when sma_50 > sma_200 and the price
\* is above sma_50, muy_bajista when sma_50 < sma_200 and the price is below
\* sma_50, otherwise alcista when the price is above sma_50, otherwise
\* bajista; a price equal to sma_50 reads bajista.
C25_SmaCross ==
    (Interpreted("interpret_sma") /\ ~UndefinedInput) =>
        LET price == reading.current_price
            sma50 == reading.sma_50
            sma200 == reading.sma_200
            signal == verdict.value.signal
            golden == RGt(sma50, sma200) /\ RGt(price, sma50)
            death == RGt(sma200, sma50) /\ RGt(sma50, price)
        IN  /\ golden => signal = "muy_alcista"
            /\ death => signal = "muy_bajista"
            /\ (~golden /\ ~death /\ RGt(price, sma50)) => signal = "alcista"
            /\ (~golden /\ ~death /\ ~RGt(price, sma50)) => signal = "bajista"
            /\ price = sma50 => signal = "bajista"

C25_Witness ==
    /\ Interpreted("interpret_sma")
    /\ ~UndefinedInput
    /\ reading.current_price = reading.sma_50
    /\ RGt(reading.sma_50, reading.sma_200)
    /\ verdict.value.signal = "bajista"

GoldenCross_Witness ==
    /\ Interpreted("interpret_sma")
    /\ ~UndefinedInput
    /\ verdict.value.signal = "muy_alcista"

DeathCross_Witness ==
    /\ Interpreted("interpret_sma")
    /\ ~UndefinedInput
    /\ verdict.value.signal = "muy_bajista"

AboveAverageWithoutCross_Witness ==
    /\ Interpreted("interpret_sma")
    /\ ~UndefinedInput
    /\ verdict.value.signal = "alcista"

\* interpret_bollinger has returned for a price and bands that are defined,
\* the upper band not below the lower one
BandsInterpreted ==
    /\ Interpreted("interpret_bollinger")
    /\ ~UndefinedInput
    /\ RLe(reading.lower, reading.upper)

\* (price - lower) / (upper - lower) clamped to [0, 1], 1/2 on equal bands
ClampedPosition(price, upper, lower) ==
    IF upper = lower THEN Norm(1, 2)
    ELSE LET raw == RDiv(RSub(price, lower), RSub(upper, lower))
         IN  IF RLe(raw, Zero) THEN Zero
             ELSE IF RLe(Num(1), raw) THEN Num(1)
             ELSE raw

SignalOfPosition(position) ==
    IF RLe(Norm(9, 10), position) THEN "sobrecompra"
    ELSE IF RLe(position, Norm(1, 10)) THEN "sobreventa"
    ELSE IF RGt(position, Norm(1, 2)) THEN "alcista"
    ELSE "bajista"

\* C26: for a defined price and defined bands with upper >= lower,
\* interpret_bollinger reads the position (price - lower) / (upper - lower),
\* clamped to [0, 1] and taken as 0.5 when upper = lower: sobrecompra from
\* 0.9, sobreventa up to 0.1, alcista above 0.5, bajista otherwise; and a
\* price above the upper band reads sobrecompra, one below the lower band
\* sobreventa.
C26_BollingerPosition ==
    BandsInterpreted =>
        LET price == reading.current_price
            signal == verdict.value.signal
        IN  /\ signal = SignalOfPosition(
                            ClampedPosition(price, reading.upper, reading.lower))
            /\ RGt(price, reading.upper) => signal = "sobrecompra"
            /\ RGt(reading.lower, price) => signal = "sobreventa"

\* C26 as amended: the same classification by the clamped position, where a
\* price above the upper band reads sobrecompra and one below the lower band
\* sobreventa when the upper band is above the lower one; on equal bands
\* every price has position 0.5.
C26_PositionOfDistinctBands ==
    BandsInterpreted =>
        LET price == reading.current_price
            signal == verdict.value.signal
            distinct == RGt(reading.upper, reading.lower)
        IN  /\ signal = SignalOfPosition(
                            ClampedPosition(price, reading.upper, reading.lower))
            /\ (distinct /\ RGt(price, reading.upper)) => signal = "sobrecompra"
            /\ (distinct /\ RGt(reading.lower, price)) => signal = "sobreventa"

C26_Witness ==
    /\ BandsInterpreted
    /\ RGt(reading.upper, reading.lower)
    /\ RGt(reading.current_price, reading.upper)
    /\ verdict.value.signal = "sobrecompra"

BelowLowerBand_Witness ==
    /\ BandsInterpreted
    /\ RGt(reading.upper, reading.lower)
    /\ RGt(reading.lower, reading.current_price)
    /\ verdict.value.signal = "sobreventa"

AboveEqualBands_Witness ==
    /\ BandsInterpreted
    /\ reading.upper = reading.lower
    /\ RGt(reading.current_price, reading.upper)
    /\ verdict.value.signal = "bajista"

UpperHalf_Witness ==
    /\ BandsInterpreted
    /\ verdict.value.signal = "alcista"

\* The bands have collapsed onto the middle one
CollapsedBands ==
    /\ Interpreted("interpret_bollinger")
    /\ ~UndefinedInput
    /\ reading.upper = reading.lower
    /\ reading.middle = reading.lower

\* C27: on collapsed bands (upper = lower = middle) interpret_bollinger does
\* not divide by zero or fail, and the signal it returns is alcista.
C27_CollapsedBandsReadBullish ==
    CollapsedBands =>
        /\ "raised" \notin DOMAIN verdict.value
        /\ verdict.value.signal = "alcista"

\* On collapsed bands interpret_bollinger returns a reading, bajista
CollapsedBandsReturn ==
    CollapsedBands =>
        /\ "raised" \notin DOMAIN verdict.value
        /\ verdict.value.signal = "bajista"

CollapsedBandsReturn_Witness ==
    /\ CollapsedBands
    /\ reading.current_price = reading.middle
    /\ verdict.value.signal = "bajista"

-----------------------------------------------------------------------------
(* Properties of the technical analysis page (specification SpecAnalysis) *)

\* The page was shown for a history with bars
SummaryShown == summary # Pending /\ data # <<>>

CardOf(label) ==
    LET i == CHOOSE k \in 1..Len(summary.cards) : summary.cards[k].label = label
    IN  summary.cards[i]

HasCard(label) == \E k \in 1..Len(summary.cards) : summary.cards[k].label = label

ShownAsInsufficient(label) ==
    HasCard(label) /\ CardOf(label).value = "Datos insuficientes"

\* C28: for a history with bars whose latest RSI, SMA 50 or SMA 200 is
\* undefined, interpreting the indicators and rendering
\* show_indicators_summary completes without raising, and the card of each
\* undefined indicator presents it as insufficient data.
C28_SummaryOfInsufficientHistory ==
    (/\ SummaryShown
     /\ \/ ind.value.rsi = None
        \/ ind.value.sma_50 = None
        \/ ind.value.sma_200 = None) =>
        /\ summary.status = "rendered"
        /\ ind.value.rsi = None => ShownAsInsufficient("RSI (14)")
        /\ ind.value.sma_50 = None => ShownAsInsufficient("SMA 50")
        /\ ind.value.sma_200 = None => ShownAsInsufficient("SMA 200")

\* What the page does: the summary is rendered in full exactly when the
\* latest RSI, MACD, SMA 50 and SMA 200 are all defined, and stops with a
\* TypeError at the first card whose value is None otherwise
SummaryRaisesOnUndefined ==
    SummaryShown =>
        LET r == ind.value
            defined == /\ r.rsi # None
                       /\ r.macd.macd # None
                       /\ r.sma_50 # None
                       /\ r.sma_200 # None
        IN  IF defined THEN summary.status = "rendered" /\ Len(summary.cards) = 5
            ELSE /\ summary.status = "raised"
                 /\ summary.exception = "TypeError"
                 /\ Len(summary.cards) < 5

SummaryRaisesOnUndefined_Witness ==
    /\ SummaryShown
    /\ Len(data) = BollingerPeriod + 1
    /\ ind.value.rsi # None
    /\ ind.value.sma_50 = None
    /\ summary.status = "raised"
    /\ Len(summary.cards) = 3

FullSummary_Witness ==
    /\ SummaryShown
    /\ summary.status = "rendered"
    /\ Len(summary.cards) = 5

-----------------------------------------------------------------------------
(* Properties of the quotes and metrics of a page (specification SpecPages) *)

\* The metrics shown were computed at the rate the quotes were converted at
PageShown == metrics # <<>> /\ metrics[1].rate = usd_ars

QuoteOf(i) == current_prices[positions[i].ticker]

DetailOf(i) == metrics[1].result.positions_detail[i]

AtPurchasePrice(i) == QuoteOf(i).price = positions[i].purchase_price

IsFallback(i) == "ticker" \notin DOMAIN QuoteOf(i)

Unchanged(i) ==
    /\ DetailOf(i).current_value = DetailOf(i).invested
    /\ DetailOf(i).pnl = Zero

\* C29: a position whose quote has a native price equal to its native
\* purchase price, both converted at the same rate, gets current_value =
\* invested and pnl = 0 from calculate_portfolio_metrics, for USD, ARS, BRL
\* and MXN tickers, for quotes of get_current_price and for the fallback
\* quotes of the pages.
C29_NoChangeAtPurchasePrice ==
    PageShown =>
        \A i \in 1..Len(positions) : AtPurchasePrice(i) => Unchanged(i)

\* The same of fallback quotes and of USD tickers only
NoChangeOfUnroundedQuotes ==
    PageShown =>
        \A i \in 1..Len(positions) :
            (/\ AtPurchasePrice(i)
             /\ IsFallback(i) \/ DetailOf(i).currency = "USD") => Unchanged(i)

NoChangeOfUnroundedQuotes_Witness ==
    /\ PageShown
    /\ \E i \in 1..Len(positions) :
          /\ AtPurchasePrice(i)
          /\ IsFallback(i)
          /\ DetailOf(i).currency = "ARS"
          /\ positions[i].purchase_price = Num(1003)
          /\ usd_ars = Num(1000)
          /\ Unchanged(i)

QuotedAtPurchasePrice_Witness ==
    /\ PageShown
    /\ \E i \in 1..Len(positions) :
          /\ AtPurchasePrice(i)
          /\ ~IsFallback(i)
          /\ DetailOf(i).currency = "MXN"
          /\ ~Unchanged(i)

-----------------------------------------------------------------------------
(* Properties of a session (specification SpecSession) *)

SignedIn == Has(session_state, "user") /\ session_state.user # None

\* An application page is on the screen only for the signed-in user, and
\* without one the authentication page is
PagesNeedUser ==
    rendered # Pending =>
        /\ rendered.page \in AppPages \cup {"auth"}
        /\ rendered.page \in AppPages =>
              SignedIn /\ rendered.shown_for = session_state.user
        /\ ~SignedIn =>
              /\ Has(session_state, "user")
              /\ rendered.page = "auth"

\* A step that signs the user out leaves user None and current_page dashboard
LogoutResets ==
    (SignedIn /\ ~SignedIn') =>
        /\ session_state'.user = None
        /\ Has(session_state', "current_page")
        /\ session_state'.current_page = "dashboard"

\* A step that signs a user in shows the dashboard
LoginLandsOnDashboard ==
    (~SignedIn /\ SignedIn') =>
        /\ session_state'.current_page = "dashboard"
        /\ rendered'.page = "dashboard"

\* C30: through any sequence of failed and successful logins and
\* registrations, navigation clicks and logouts, an application page
\* (dashboard, portfolio, analysis, profile) is rendered only while the
\* session user is set, and while it is None only the authentication page
\* is rendered; a logout sets the user to None and current_page to
\* dashboard, so that the next successful login shows the dashboard.
C30_PagesOnlyForSignedInUser ==
    /\ []PagesNeedUser
    /\ [][LogoutResets /\ LoginLandsOnDashboard]_vars

\* The authentication page after a logout: current_page is only ever set
\* for a signed-in user
C30_Witness ==
    /\ OnAuthPage
    /\ session_state.user = None
    /\ Has(session_state, "current_page")
    /\ session_state.current_page = "dashboard"

NavigatedAway_Witness ==
    /\ OnAppPage
    /\ rendered.page = "analysis"
    /\ SignedIn
    /\ session_state.user.email = "luis@example.com"

FailedLogin_Witness ==
    /\ OnAuthPage
    /\ rendered.message = "Email o contrasena incorrectos"
    /\ ~SignedIn

-----------------------------------------------------------------------------
(* Properties of convert_to_usd (specification SpecConvert) *)

\* C8: convert_to_usd returns the amount unchanged for USD, the amount divided
\* by the looked-up rate for ARS, and the amount divided by 5 for BRL and by 17
\* for MXN.
C8_ConvertByCurrency ==
    conv_result.status = "returned" =>
        /\ ~IsRaised(conv_result.value)
        /\ conv_currency = "USD" => conv_result.value = conv_price
        /\ conv_currency = "ARS" => RMul(conv_result.value, conv_result.rate) = conv_price
        /\ conv_currency = "BRL" => RMul(conv_result.value, Num(5)) = conv_price
        /\ conv_currency = "MXN" => RMul(conv_result.value, Num(17)) = conv_price

C8_Witness ==
    /\ conv_result.status = "returned"
    /\ conv_currency = "ARS"
    /\ conv_price = Num(10)
    /\ conv_result.rate = Num(500)
    /\ conv_result.value = <<1, 50>>

\* C9: convert_to_usd, given a currency that is none of USD, ARS, BRL, MXN,
\* fails with a conversion error and does not return the original amount.
C9_UnknownCurrencyFails ==
    ( /\ conv_result.status # "pending"
      /\ conv_currency \notin {"USD", "ARS", "BRL", "MXN"} )
        => /\ conv_result.status = "ConversionError"
           /\ conv_result # [status |-> "returned", rate |-> conv_result.rate,
                              value |-> conv_price]

====
